---------------------------- MODULE Spec2Model ----------------------------
(***************************************************************************)
(* Model of the unused-style scanner (class UnusedCSSScanner).             *)
(*                                                                         *)
(* Three builds of the engine are in the repository and are modelled:      *)
(*   build = "index"  : src/src/index.ts, every pass parses the content    *)
(*                      it was given (ts.createSourceFile);                *)
(*   build = "cached" : src/unnamed/part_004 (first program of the file),  *)
(*                      the same engine with sourceFileCache, a per-path   *)
(*                      cache of parsed trees;                             *)
(*   build = "dist"   : src/dist/index.js, the engine of regular           *)
(*                      expressions, which has watch mode.                 *)
(*                                                                         *)
(* A file's text is a sequence of one-character strings; offsets are the   *)
(* 0-based offsets the code uses.  A parsed tree (ts.SourceFile) is a      *)
(* function of the text it was parsed from, so a tree is represented by    *)
(* that text and every query on the tree is computed from it.              *)
(***************************************************************************)
EXTENDS Integers, Sequences, FiniteSets, TLC

(***************************************************************************)
(* Bounds of the model.                                                    *)
(***************************************************************************)
\* largest number of declarations in a generated declaration block
MaxDecls == 2
\* largest number of edits of the file by another process in one behaviour
MaxEdits == 1
\* largest number of calls of the scanner in one behaviour
MaxCalls == 2

(***************************************************************************)
(* Characters.                                                             *)
(***************************************************************************)
Letters ==
  {"a","b","c","d","e","f","g","h","i","j","k","l","m","n","o","p","q",
   "r","s","t","u","v","w","x","y","z","S","N"}

Digits == {"0","1","2"}

\* the characters the JavaScript regular expression class \s matches
Whitespace == {" ", "\n", "\t"}

IsIdentChar(c) == c \in Letters \cup Digits

IsIdentStart(c) == c \in Letters

MinOf(S) == CHOOSE x \in S : \A y \in S : x <= y

MaxOf(S) == CHOOSE x \in S : \A y \in S : x >= y

(***************************************************************************)
(* JavaScript string operations, on 0-based offsets.                       *)
(***************************************************************************)
Clamp(n, len) == IF n < 0 THEN 0 ELSE IF n > len THEN len ELSE n

\* String.prototype.substring(a, b): both ends clamped, swapped when a > b
substring(t, a, b) ==
  LET ca == Clamp(a, Len(t))
      cb == Clamp(b, Len(t))
      lo == IF ca <= cb THEN ca ELSE cb
      hi == IF ca <= cb THEN cb ELSE ca
  IN  SubSeq(t, lo + 1, hi)

\* String.prototype.substring(a): to the end of the string
substringFrom(t, a) == substring(t, a, Len(t))

\* String.prototype.indexOf(c) for a one-character c: -1 when absent
indexOf(t, c) ==
  LET S == {k \in 1..Len(t) : t[k] = c}
  IN  IF S = {} THEN -1 ELSE MinOf(S) - 1

\* String.prototype.lastIndexOf(c) for a one-character c: -1 when absent
lastIndexOf(t, c) ==
  LET S == {k \in 1..Len(t) : t[k] = c}
  IN  IF S = {} THEN -1 ELSE MaxOf(S) - 1

\* afterText.match(/^\s*,/): only whitespace, then a comma
matchLeadingComma(t) ==
  \E k \in 1..Len(t) :
     /\ t[k] = ","
     /\ \A j \in 1..(k - 1) : t[j] \in Whitespace

(***************************************************************************)
(* The parser (ts.createSourceFile), for the part of TSX the generated     *)
(* files are written in.  Positions p, q, ... are 1-based indexes into     *)
(* the text; the offsets stored in nodes are 0-based.                      *)
(***************************************************************************)
charAt(t, p) == IF p >= 1 /\ p <= Len(t) THEN t[p] ELSE "EOF"

\* first position >= p that holds no whitespace (Len(t)+1 at the end)
skipTrivia(t, p) ==
  LET S == {k \in p..Len(t) : t[k] \notin Whitespace}
  IN  IF S = {} THEN Len(t) + 1 ELSE MinOf(S)

\* first position >= p that holds no identifier character
identEnd(t, p) ==
  LET S == {k \in p..Len(t) : ~IsIdentChar(t[k])}
  IN  IF S = {} THEN Len(t) + 1 ELSE MinOf(S)

\* the word w stands at position p of t
wordAt(t, p, w) ==
  /\ p >= 1
  /\ p + Len(w) - 1 <= Len(t)
  /\ SubSeq(t, p, p + Len(w) - 1) = w

\* an identifier token starts at p
identAt(t, p) ==
  /\ IsIdentStart(charAt(t, p))
  /\ ~IsIdentChar(charAt(t, p - 1))

\* every identifier taken for an expression of its own
anyIdentifierAt(t, p) ==
  /\ IsIdentStart(charAt(t, p))
  /\ ~IsIdentChar(charAt(t, p - 1))

\* the identifier at p is an expression of its own: it is not the name of a
\* property access (a single dot before it; the three dots of a spread are
\* no property access)
receiverAt(t, p) ==
  /\ identAt(t, p)
  /\ \/ charAt(t, p - 1) # "."
     \/ (charAt(t, p - 2) = "." /\ charAt(t, p - 3) = ".")

\* position after the "}" that closes the "{" counted in depth, scanning
\* from p; Len(t)+1 when the text ends first
RECURSIVE closeBrace(_, _, _)
closeBrace(t, p, depth) ==
  IF p > Len(t) THEN Len(t) + 1
  ELSE IF t[p] = "{" THEN closeBrace(t, p + 1, depth + 1)
  ELSE IF t[p] = "}" THEN
         IF depth = 1 THEN p + 1 ELSE closeBrace(t, p + 1, depth - 1)
  ELSE closeBrace(t, p + 1, depth)

\* position after the initializer expression that starts at p: an object
\* literal ends with its closing brace, any other expression before the
\* next "," "}" or ")"
exprEnd(t, p) ==
  IF charAt(t, p) = "{" THEN closeBrace(t, p + 1, 1)
  ELSE LET S == {k \in p..Len(t) : t[k] \in {",", "}", ")"}}
       IN  IF S = {} THEN Len(t) + 1 ELSE MinOf(S)

Words_StyleSheet == <<"S","t","y","l","e","S","h","e","e","t">>

Words_create == <<"c","r","e","a","t","e">>

Words_styles == <<"s","t","y","l","e","s">>

Words_const == <<"c","o","n","s","t">>


\* the elements of a finite set of integers, in increasing order
RECURSIVE ascending(_)
ascending(S) ==
  IF S = {} THEN <<>>
  ELSE LET m == MinOf(S) IN <<m>> \o ascending(S \ {m})

(***************************************************************************)
(* Queries on a tree: the nodes the visitors of the code look for.         *)
(***************************************************************************)
\* ts.isCallExpression(node) with node.expression the property access
\* StyleSheet.create: p is the position of the call's first character
isCreateCall(t, p) ==
  /\ receiverAt(t, p)
  /\ wordAt(t, p, Words_StyleSheet)
  /\ identEnd(t, p) = p + Len(Words_StyleSheet)
  /\ charAt(t, p + Len(Words_StyleSheet)) = "."
  /\ wordAt(t, p + Len(Words_StyleSheet) + 1, Words_create)
  /\ identEnd(t, p + Len(Words_StyleSheet) + 1)
        = p + Len(Words_StyleSheet) + 1 + Len(Words_create)
  /\ charAt(t, p + Len(Words_StyleSheet) + 1 + Len(Words_create)) = "("

\* node.arguments[0]: position of the first argument of the call at p
firstArgument(t, p) ==
  skipTrivia(t, p + Len(Words_StyleSheet) + 1 + Len(Words_create) + 1)

\* the kind of the member of an object literal that starts at q, by its
\* first token: a name (identifier, string literal, computed), a spread
\* element, or none of them
memberKind(t, q) ==
  IF identAt(t, q) THEN "identifier"
  ELSE IF charAt(t, q) = "\"" THEN "string"
  ELSE IF charAt(t, q) = "[" THEN "computed"
  ELSE IF wordAt(t, q, <<".", ".", ".">>) THEN "spread"
  ELSE "none"

\* first position > q that holds the character c (Len(t)+1 when none does)
nextChar(t, q, c) ==
  LET S == {k \in (q + 1)..Len(t) : t[k] = c}
  IN  IF S = {} THEN Len(t) + 1 ELSE MinOf(S)

\* position after the name that starts at q
nameEnd(t, q, kind) ==
  IF kind = "identifier" THEN identEnd(t, q)
  ELSE IF kind = "string" THEN nextChar(t, q, "\"") + 1
  ELSE nextChar(t, q, "]") + 1

\* the text of the name that starts at q: prop.name.text
nameText(t, q, kind) ==
  IF kind = "identifier" THEN SubSeq(t, q, identEnd(t, q) - 1)
  ELSE SubSeq(t, q + 1, nameEnd(t, q, kind) - 2)

\* a test that takes a string literal for a name as well
isIdentifierOrString(kind) == kind \in {"identifier", "string"}

\* ts.isIdentifier(prop.name)
isIdentifier(kind) == kind = "identifier"

\* position after an optional comma at r
afterComma(t, r) == IF charAt(t, r) = "," THEN r + 1 ELSE r

\* arg.properties restricted to ts.isPropertyAssignment(prop) &&
\* ts.isIdentifier(prop.name): the members of the object literal, read from
\* position p on.  A name followed by ":" and an initializer is a property
\* assignment; a name followed by "(" is a method; an identifier alone is a
\* shorthand property; "..." starts a spread element.  The member list
\* ends at "}", at the end of the text, or (a missing "}") at the ")" that
\* ends the enclosing argument list; any other token that starts no member
\* is skipped.
RECURSIVE properties(_, _, _)
properties(t, p, acc) ==
  LET q    == skipTrivia(t, p)
      kind == memberKind(t, q)
  IN
  IF q > Len(t) \/ t[q] \in {"}", ")"} THEN acc
  ELSE IF kind = "none" THEN properties(t, q + 1, acc)
  ELSE IF kind = "spread" THEN
    properties(t, afterComma(t, skipTrivia(t, exprEnd(t, skipTrivia(t, q + 3)))),
               acc)
  ELSE
    LET e == nameEnd(t, q, kind)
        c == skipTrivia(t, e)
    IN  IF charAt(t, c) = ":" THEN
          LET v    == skipTrivia(t, c + 1)
              vend == exprEnd(t, v)
              r    == skipTrivia(t, vend)
              prop == [name  |-> nameText(t, q, kind),
                       start |-> q - 1,
                       end   |-> vend - 1]
          IN  properties(t, afterComma(t, r),
                         IF isIdentifier(kind) THEN Append(acc, prop) ELSE acc)
        ELSE IF charAt(t, c) = "(" THEN \* a method: parameters, then a body
          LET body == skipTrivia(t, nextChar(t, c, ")") + 1)
          IN  properties(t, afterComma(t, skipTrivia(t, exprEnd(t, body))), acc)
        ELSE \* a shorthand property: no property assignment
          properties(t, afterComma(t, c), acc)

\* the property assignments of the object literal passed to the call at p
createProperties(t, p) ==
  IF charAt(t, firstArgument(t, p)) = "{"
  THEN properties(t, firstArgument(t, p) + 1, <<>>)
  ELSE <<>>

\* visit(sourceFile): the property assignments of every StyleSheet.create
\* call of the tree, in document order
RECURSIVE concatProperties(_, _, _)
concatProperties(t, calls, i) ==
  IF i > Len(calls) THEN <<>>
  ELSE createProperties(t, calls[i]) \o concatProperties(t, calls, i + 1)

\* a visitor that stops at the first StyleSheet.create call
firstBlockOnly(t) ==
  concatProperties(t, SubSeq(ascending({p \in 1..Len(t) : isCreateCall(t, p)}),
                             1, 1), 1)

\* visit(sourceFile) of extractDefinedStyles and of removeUnusedStyles
styleProperties(t) ==
  concatProperties(t, ascending({p \in 1..Len(t) : isCreateCall(t, p)}), 1)

\* sourceFile.getLineAndCharacterOfPosition(pos).line + 1
getLineNumber(t, pos) ==
  1 + Cardinality({k \in 1..Clamp(pos, Len(t)) : t[k] = "\n"})

\* extractDefinedStyles, given the tree
definedOf(t) ==
  LET props == styleProperties(t)
  IN  [i \in 1..Len(props) |->
         [name      |-> props[i].name,
          startLine |-> getLineNumber(t, props[i].start),
          endLine   |-> getLineNumber(t, props[i].end)]]

\* a variable declaration "const <name> = styles" starts at p: the
\* initializer is the identifier styles and nothing more
isAliasDeclaration(t, p) ==
  /\ identAt(t, p)
  /\ wordAt(t, p, Words_const)
  /\ identEnd(t, p) = p + Len(Words_const)
  /\ LET n == skipTrivia(t, p + Len(Words_const))
         e == identEnd(t, n)
         q == skipTrivia(t, e)
         r == skipTrivia(t, q + 1)
     IN  /\ identAt(t, n)
         /\ charAt(t, q) = "="
         /\ receiverAt(t, r)
         /\ wordAt(t, r, Words_styles)
         /\ identEnd(t, r) = r + Len(Words_styles)
         /\ charAt(t, skipTrivia(t, r + Len(Words_styles)))
               \notin {".", "[", "("}

aliasName(t, p) ==
  LET n == skipTrivia(t, p + Len(Words_const))
  IN  SubSeq(t, n, identEnd(t, n) - 1)

\* a pass that takes every variable declared with const for an alias
collectEveryConst(t) ==
  {aliasName(t, p) :
     p \in {k \in 1..Len(t) : /\ identAt(t, k)
                              /\ wordAt(t, k, Words_const)
                              /\ identEnd(t, k) = k + Len(Words_const)
                              /\ identAt(t, skipTrivia(t, k + Len(Words_const)))}}

\* collectAliases(sourceFile)
collectAliases(t) ==
  {aliasName(t, p) : p \in {k \in 1..Len(t) : isAliasDeclaration(t, k)}}

\* ts.isPropertyAccessExpression(node) with identifier receiver and
\* identifier name, the receiver starting at p
isPropertyAccess(t, p) ==
  /\ receiverAt(t, p)
  /\ charAt(t, identEnd(t, p)) = "."
  /\ IsIdentStart(charAt(t, identEnd(t, p) + 1))

\* ts.isElementAccessExpression(node) with identifier receiver and a
\* string literal argument, the receiver starting at p
isElementAccess(t, p) ==
  /\ receiverAt(t, p)
  /\ charAt(t, identEnd(t, p)) = "["
  /\ charAt(t, identEnd(t, p) + 1) = "\""
  /\ LET s == identEnd(t, p) + 2
         S == {k \in s..Len(t) : t[k] = "\""}
     IN  S # {} /\ charAt(t, MinOf(S) + 1) = "]"

receiverName(t, p) == SubSeq(t, p, identEnd(t, p) - 1)

\* node.name.text of a property access, node.argumentExpression.text of an
\* element access
accessedName(t, p) ==
  LET e == identEnd(t, p) IN
  IF charAt(t, e) = "."
  THEN SubSeq(t, e + 1, identEnd(t, e + 1) - 1)
  ELSE SubSeq(t, e + 2, MinOf({k \in (e + 2)..Len(t) : t[k] = "\""}) - 1)

\* Array.from(usedStyles): a Set keeps the order of first insertion
RECURSIVE setInsertionOrder(_, _)
setInsertionOrder(names, acc) ==
  IF names = <<>> THEN acc
  ELSE setInsertionOrder(
         Tail(names),
         IF \E i \in 1..Len(acc) : acc[i] = Head(names)
         THEN acc ELSE Append(acc, Head(names)))

\* a single pass over the tree: an access through an alias is recorded only
\* when the declaration of the alias stands before it
usedOfSinglePass(t) ==
  LET aliasesBefore(p) ==
        {aliasName(t, k) : k \in {j \in 1..(p - 1) : isAliasDeclaration(t, j)}}
      hits == ascending({p \in 1..Len(t) :
                 /\ isPropertyAccess(t, p) \/ isElementAccess(t, p)
                 /\ \/ receiverName(t, p) = Words_styles
                    \/ receiverName(t, p) \in aliasesBefore(p)})
  IN  setInsertionOrder([i \in 1..Len(hits) |-> accessedName(t, hits[i])],
                        <<>>)

\* extractUsedStyles, given the tree: the aliases are collected over the
\* whole tree first, then every access through styles or an alias is
\* recorded
usedOf(t) ==
  LET aliases == collectAliases(t)
      hits == ascending({p \in 1..Len(t) :
                 /\ isPropertyAccess(t, p) \/ isElementAccess(t, p)
                 /\ \/ receiverName(t, p) = Words_styles
                    \/ receiverName(t, p) \in aliases})
  IN  setInsertionOrder([i \in 1..Len(hits) |-> accessedName(t, hits[i])],
                        <<>>)

(***************************************************************************)
(* State.                                                                  *)
(***************************************************************************)
VARIABLES
  build,            \* "index" (src/src/index.ts) or "cached" (part_004)
  file,             \* the path the calls of this run are made for
  readOnly,         \* fs.writeFileSync throws for the file (no permission)
  disk,             \* the file system: path -> text, for the existing files
  sourceFileCache,  \* Map<string, ts.SourceFile>: path -> the parsed text
  result,           \* what the latest scanFile returned: <<>> is null
  success,          \* what the latest removeUnusedStyles returned
  edits,            \* number of edits by other processes so far
  calls,            \* number of calls of the scanner so far
  clean,            \* history: the file is as the latest scan read it
  last,             \* history: the latest operation and what it started from
  pc,               \* where the command-line program stands
  mode,             \* the scan the program runs: direct, single, all, oneByOne
  files,            \* allFiles / files: the files the program works through
  idx,              \* the index of the loop the program is in (from 1)
  results,          \* results: the scan results the program collected
  answer,           \* the latest answer to the delete prompt, trimmed
  exitCode,         \* the exit code of the process; "none" while it runs
  reads,            \* history: the paths passed to fs.readFileSync
  scans,            \* history: the paths passed to scanFile
  attempted,        \* history: the paths passed to removeUnusedStyles
  rlOpen,           \* the readline interface this.rl has not been closed
  config,           \* this.config of the watching scanner (.unusedcssrc)
  events,           \* change events of the file raised and not delivered
  invocations,      \* the handleFileChange invocations that have not ended
  running           \* the invocation on the JavaScript thread; 0 for none

\* the variables of the command-line program
cliVars == <<pc, mode, files, idx, results, answer, exitCode, reads, scans,
             attempted, rlOpen>>

\* the variables of watch mode
watchVars == <<config, events, invocations, running>>

vars == <<build, file, readOnly, disk, sourceFileCache, result, success,
          edits, calls, clean, last, pc, mode, files, idx, results, answer,
          exitCode, reads, scans, attempted, rlOpen, config, events,
          invocations, running>>

Builds == {"index", "cached"}

\* the paths of the model: a source file, a test file the default ignore
\* patterns exclude, and a path at which no file exists
Paths == {"App.tsx", "App.test.tsx", "Gone.tsx"}

\* this.options.ignorePatterns by default: /node_modules/ and /\.test\./
ignorePatterns == {"node_modules", ".test."}

\* pattern.test(filePath), tabulated for the paths of the model
patternTest(pattern, filePath) ==
  \/ /\ pattern = ".test."
     /\ filePath \in {"App.test.tsx", "src/B.test.tsx"}
  \/ /\ pattern = "node_modules"
     /\ filePath \in {"src/node_modules", "src/node_modules/C.tsx"}

\* a program whose ignore patterns match nothing
neverIgnore(filePath) == FALSE

shouldIgnore(filePath) ==
  \E pattern \in ignorePatterns : patternTest(pattern, filePath)

\* readFile: <<>> is null (fs.readFileSync threw), <<text>> the content
readFile(d, filePath) ==
  IF filePath \in DOMAIN d THEN <<d[filePath]>> ELSE <<>>

\* !content, for a string | null: null and the empty string are falsy
falsy(content) == content = <<>> \/ content[1] = <<>>

\* [[[[[[]]]]]];  This text stands for a source nested deeper than the
\* recursion of the parser and of the visitors can follow: for such a
\* source ts.createSourceFile throws (RangeError).
FaultText == <<"[","[","[","[","[","[","]","]","]","]","]","]",";">>

\* ts.createSourceFile(filePath, content, ...) throws
parseThrows(content) == content = FaultText

\* a cache that keeps an empty tree instead of the tree it parsed
createSourceFileForgetting(cache, content, filePath) ==
  IF build = "cached" THEN
    IF filePath \in DOMAIN cache
    THEN [sourceFile |-> cache[filePath], cache |-> cache, threw |-> FALSE]
    ELSE [sourceFile |-> content, cache |-> cache @@ (filePath :> <<>>),
          threw |-> FALSE]
  ELSE [sourceFile |-> content, cache |-> cache, threw |-> FALSE]

\* createSourceFile(content, filePath), with the cache passed explicitly:
\* the tree returned and the cache afterwards.  src/src/index.ts calls
\* ts.createSourceFile on the content each time and has no cache.
\* threw says that the call ended with an exception; nothing is stored
\* in the cache then.
createSourceFile(cache, content, filePath) ==
  IF build = "cached" /\ filePath \in DOMAIN cache
  THEN [sourceFile |-> cache[filePath], cache |-> cache, threw |-> FALSE]
  ELSE IF parseThrows(content)
  THEN [sourceFile |-> <<>>, cache |-> cache, threw |-> TRUE]
  ELSE IF build = "cached"
  THEN [sourceFile |-> content, cache |-> cache @@ (filePath :> content),
        threw |-> FALSE]
  ELSE [sourceFile |-> content, cache |-> cache, threw |-> FALSE]

\* the extraction passes are wrapped in try { ... } catch (error) {
\* console.error(...) } in src/src/index.ts; the passes of part_004 have
\* no try
extractionCatches == build = "index"

\* extractDefinedStyles(content, filePath): the styles returned, the cache
\* left, and whether the call ended with an exception
extractDefinedStyles(cache, content, filePath) ==
  LET made == createSourceFile(cache, content, filePath)
  IN  IF made.threw
      THEN [styles |-> <<>>, cache |-> made.cache,
            threw |-> ~extractionCatches]
      ELSE [styles |-> definedOf(made.sourceFile), cache |-> made.cache,
            threw |-> FALSE]

\* extractUsedStyles(content, filePath)
extractUsedStyles(cache, content, filePath) ==
  LET made == createSourceFile(cache, content, filePath)
  IN  IF made.threw
      THEN [styles |-> <<>>, cache |-> made.cache,
            threw |-> ~extractionCatches]
      ELSE [styles |-> usedOf(made.sourceFile), cache |-> made.cache,
            threw |-> FALSE]

\* usedStyles.includes(name)
includes(usedStyles, name) ==
  \E i \in 1..Len(usedStyles) : usedStyles[i] = name

\* a filter that keeps every style
filterNothing(definedStyles, usedStyles) == definedStyles

\* definedStyles.filter((style) => !usedStyles.includes(style.name))
filterUnused(definedStyles, usedStyles) ==
  SelectSeq(definedStyles, LAMBDA style : ~includes(usedStyles, style.name))

\* scanFile(filePath): the value returned (<<>> for null), the cache left,
\* and whether the call ended with an exception instead of a value
scanFile(d, cache, filePath) ==
  IF shouldIgnore(filePath)
  THEN [usage |-> <<>>, cache |-> cache, threw |-> FALSE]
  ELSE LET content == readFile(d, filePath) IN
    IF falsy(content) THEN [usage |-> <<>>, cache |-> cache, threw |-> FALSE]
    ELSE
      LET usageOf(defined, used) ==
            IF defined.threw \/ used.threw
            THEN [usage |-> <<>>, cache |-> used.cache, threw |-> TRUE]
            ELSE
            [usage |-> << [file          |-> filePath,
                           definedStyles |-> defined.styles,
                           usedStyles    |-> used.styles,
                           unusedStyles  |->
                             filterUnused(defined.styles, used.styles)] >>,
             cache |-> used.cache, threw |-> FALSE]
          usedAfter(defined) ==
            usageOf(defined,
                    extractUsedStyles(defined.cache, content[1], filePath))
      IN  usedAfter(extractDefinedStyles(cache, content[1], filePath))

(***************************************************************************)
(* removeUnusedStyles.                                                     *)
(***************************************************************************)
\* the width of the lookahead and lookbehind windows, in characters
Window == 10

\* new Set(unusedStyles.map((s) => s.name))
namesOf(styles) == {styles[i].name : i \in 1..Len(styles)}

\* the test inverted: every name that was not requested
isNoTarget(unusedNames, name) == name \notin unusedNames

\* unusedNames.has(prop.name.text)
isTarget(unusedNames, name) == name \in unusedNames

\* visit(sourceFile): {start: prop.getStart(sourceFile, false), end:
\* prop.getEnd()} of every property assignment whose name is a target
modificationsOf(t, unusedNames) ==
  LET props == SelectSeq(styleProperties(t),
                         LAMBDA prop : isTarget(unusedNames, prop.name))
  IN  [i \in 1..Len(props) |-> [start |-> props[i].start,
                                end   |-> props[i].end]]

\* one step of the (stable) sort: mod goes behind the elements that do not
\* start before it
RECURSIVE insertByStart(_, _)
insertByStart(sorted, mod) ==
  IF sorted = <<>> THEN <<mod>>
  ELSE IF Head(sorted).start >= mod.start
       THEN <<Head(sorted)>> \o insertByStart(Tail(sorted), mod)
       ELSE <<mod>> \o sorted

\* the modifications left in the order the visit found them, first to last
keepDocumentOrder(mods) == mods

\* modifications.sort((a, b) => b.start - a.start)
RECURSIVE sortDescending(_)
sortDescending(mods) ==
  IF mods = <<>> THEN <<>>
  ELSE insertByStart(sortDescending(SubSeq(mods, 1, Len(mods) - 1)),
                     mods[Len(mods)])

\* an extension that takes the comma after the property and the comma
\* before it as well
extendOverBothCommas(content, mod) ==
  LET afterText == substring(content, mod.end, mod.end + Window)
      beforeText ==
        substring(content,
                  IF mod.start - Window > 0 THEN mod.start - Window ELSE 0,
                  mod.start)
      commaIndex == lastIndexOf(beforeText, ",")
  IN  [start |-> IF commaIndex # -1
                 THEN mod.start - (Len(beforeText) - commaIndex)
                 ELSE mod.start,
       end   |-> IF matchLeadingComma(afterText)
                 THEN mod.end + indexOf(afterText, ",") + 1
                 ELSE mod.end]

\* the interval removed for mod: the property and one comma, the comma
\* after it when only whitespace lies between, else the last comma of the
\* window before it.  Both windows are read from the original content.
extendOverComma(content, mod) ==
  LET afterText == substring(content, mod.end, mod.end + Window) IN
  IF matchLeadingComma(afterText)
  THEN [start |-> mod.start,
        end   |-> mod.end + indexOf(afterText, ",") + 1]
  ELSE
    LET beforeText ==
          substring(content,
                    IF mod.start - Window > 0 THEN mod.start - Window ELSE 0,
                    mod.start)
        commaIndex == lastIndexOf(beforeText, ",")
    IN  IF commaIndex # -1
        THEN [start |-> mod.start - (Len(beforeText) - commaIndex),
              end   |-> mod.end]
        ELSE [start |-> mod.start, end |-> mod.end]

\* newContent.substring(0, start) + newContent.substring(end)
splice(newContent, start, end) ==
  substring(newContent, 0, start) \o substringFrom(newContent, end)

\* for (const mod of modifications) { ... }: the text left after the
\* modifications from the i-th on are applied to newContent
RECURSIVE applyModifications(_, _, _, _)
applyModifications(content, newContent, mods, i) ==
  IF i > Len(mods) THEN newContent
  ELSE LET cut == extendOverComma(content, mods[i])
       IN  applyModifications(content,
                              splice(newContent, cut.start, cut.end),
                              mods, i + 1)

\* the text removeUnusedStyles writes for content, located on tree
rewritten(content, tree, unusedNames) ==
  applyModifications(content, content,
                     sortDescending(modificationsOf(tree, unusedNames)), 1)

\* fs.writeFileSync(filePath, newContent): the file holds newContent when
\* the write succeeds and is untouched when it throws
writeFileSync(d, filePath, newContent, writeOk) ==
  IF writeOk THEN [f \in DOMAIN d \cup {filePath} |->
                     IF f = filePath THEN newContent ELSE d[f]]
  ELSE d

\* a catch that throws the error on to the caller
rethrowWriteError == "throws"

\* catch (error) { console.error(...); return false; }
onWriteError == "false"

\* a rewrite that leaves the cache as it is
cacheKeep(cache, filePath) == cache

\* a rewrite that empties the whole cache
cacheClear(cache, filePath) == <<>>

\* this.sourceFileCache.delete(filePath)
cacheDelete(cache, filePath) ==
  [f \in DOMAIN cache \ {filePath} |-> cache[f]]

\* removeUnusedStyles(filePath, unusedStyles): the value returned, the
\* file system and the cache afterwards.  writeOk says whether
\* fs.writeFileSync succeeds; when it or the parser throws, the catch
\* returns false.
removeUnusedStyles(d, cache, filePath, unusedStyles, writeOk) ==
  LET content == readFile(d, filePath) IN
  IF falsy(content)
  THEN [success |-> "false", disk |-> d, cache |-> cache]
  ELSE
    LET made == createSourceFile(cache, content[1], filePath)
        unusedNames == namesOf(unusedStyles)
        modifications == modificationsOf(made.sourceFile, unusedNames)
    IN  IF made.threw
        THEN [success |-> onWriteError, disk |-> d, cache |-> made.cache]
        ELSE IF Len(modifications) = 0
        THEN [success |-> "false", disk |-> d, cache |-> made.cache]
        ELSE IF writeOk
        THEN [success |-> "true",
              disk    |-> writeFileSync(d, filePath,
                            rewritten(content[1], made.sourceFile,
                                      unusedNames), TRUE),
              cache   |-> cacheDelete(made.cache, filePath)]
        ELSE [success |-> onWriteError,
              disk    |-> writeFileSync(d, filePath,
                            rewritten(content[1], made.sourceFile,
                                      unusedNames), FALSE),
              cache   |-> made.cache]

(***************************************************************************)
(* The files the model starts from: a declaration block of 0..MaxDecls     *)
(* declarations in one of several layouts, with code around it that uses   *)
(* some of the declared styles (cf. src/example/test-file.tsx).            *)
(***************************************************************************)
\* the names of the declarations, by position in the block
NameChars == <<"a","b","c","d","e","f","g","h">>

declName(i) == <<NameChars[i]>>

DeclNames == {declName(i) : i \in 1..MaxDecls}

\* StyleSheet.create({
BlockHead ==
  Words_StyleSheet \o <<".">> \o Words_create \o <<"(","{">>

\* });
BlockTail == <<"}",")",";">>

\* layouts of a block: the text after the opening brace, between two
\* declarations, before the closing brace, and a declaration's value
Layouts ==
  << \* on one line:  {a:{}, b:{}}
     [open |-> <<>>, sep |-> <<","," ">>, close |-> <<>>,
      value |-> <<"{","}">>],
     \* one declaration per line, indented by two, values on three lines
     [open |-> <<"\n"," "," ">>, sep |-> <<",","\n"," "," ">>, close |-> <<"\n">>,
      value |-> <<"{","\n"," "," "," "," ","x",":","1",",","\n"," "," ","}">>],
     \* the comma at the start of the next line
     [open |-> <<" ">>, sep |-> <<"\n"," "," ",","," ">>, close |-> <<" ">>,
      value |-> <<"{","}">>],
     \* one declaration per line, indented by ten
     [open |-> <<"\n"," "," "," "," "," "," "," "," "," "," ">>, sep |-> <<",","\n"," "," "," "," "," "," "," "," "," "," ">>, close |-> <<"\n">>,
      value |-> <<"{","}">>] >>

\* the code around the block
Usages ==
  << \* no style is used
     [pre |-> <<>>, post |-> <<>>],
     \* styles.a;
     [pre |-> <<"s","t","y","l","e","s",".","a",";">>, post |-> <<>>],
     \* an alias declared before its use:  const s = styles;s.b;
     [pre |-> <<"c","o","n","s","t"," ","s"," ","="," ","s","t","y","l","e","s",";","s",".","b",";">>, post |-> <<>>],
     \* an alias declared after its use:  s.b; ... const s = styles;
     [pre |-> <<"s",".","b",";">>, post |-> <<"c","o","n","s","t"," ","s"," ","="," ","s","t","y","l","e","s",";">>],
     \* a bracket access, a repeated use, another receiver
     [pre |-> <<"s","t","y","l","e","s","[","\"","a","\"","]",";","s","t","y","l","e","s",".","a",";","t",".","b",";">>, post |-> <<>>] >>

RECURSIVE declarations(_, _, _)
declarations(layout, n, i) ==
  IF i > n THEN <<>>
  ELSE declName(i) \o <<":">> \o layout.value
         \o (IF i < n THEN layout.sep ELSE <<>>)
         \o declarations(layout, n, i + 1)

\* the text of a file
fileText(n, layout, trailing, usage) ==
  usage.pre \o BlockHead
    \o (IF n = 0 THEN <<>>
        ELSE layout.open \o declarations(layout, n, 1)
               \o (IF trailing THEN <<",">> ELSE <<>>) \o layout.close)
    \o BlockTail \o usage.post

\* a file without any StyleSheet.create call:  styles.a;
NoBlockText == <<"s","t","y","l","e","s",".","a",";">>

\* every layout of every block, with the alias used; every use of the
\* styles around the largest block; an empty file and a file with no block
Contents ==
  {fileText(n, Layouts[l], trailing, Usages[3]) :
     n \in 1..MaxDecls, l \in 1..Len(Layouts), trailing \in BOOLEAN}
  \cup {fileText(n, Layouts[1], FALSE, Usages[u]) :
          n \in {0, MaxDecls}, u \in 1..Len(Usages)}
  \cup {<<>>, NoBlockText}

\* the content of the ignored test file
TestFileText == fileText(1, Layouts[1], FALSE, Usages[1])

\* the declaration of the i-th name on one line:  a:{}
declaration(i) == declName(i) \o <<":","{","}">>

\* one block that declares a name twice:  StyleSheet.create({a:{}, a:{}});
DuplicateText ==
  BlockHead \o declaration(1) \o <<","," ">> \o declaration(1) \o BlockTail

\* two blocks, the second one declaring the name of the first again:
\* StyleSheet.create({a:{}});StyleSheet.create({b:{}, a:{}});
TwoBlocksText ==
  BlockHead \o declaration(1) \o BlockTail
    \o BlockHead \o declaration(2) \o <<","," ">> \o declaration(1)
    \o BlockTail

\* a style used by its class name only:
\* <p className="a"/>;StyleSheet.create({a:{}});
ClassNameText ==
  <<"<","p"," ","c","l","a","s","s","N","a","m","e","=","\"","a","\"","/",">",";">>
    \o BlockHead \o declaration(1) \o BlockTail

\* the members of a block that are no declarations: a string-literal key,
\* a shorthand property, a spread, a computed key and a method
\* "a":{}, b, ...s, [a]:{}, b(){}
NonDeclarations ==
  <<"\"","a","\"",":","{","}",","," ","b",","," ",".",".",".","s",","," ","[","a","]",":","{","}",","," ","b","(",")","{","}">>

\* a block of such members only, and one with a declaration after them
MembersText == BlockHead \o NonDeclarations \o BlockTail

MembersAndDeclarationText ==
  BlockHead \o NonDeclarations \o <<","," ">> \o declaration(1) \o BlockTail

\* accesses that are no uses: receivers that are not the identifier
\* styles or an alias, and a bracket access with an index that is no string
\* this.styles.a;props.styles.a;t.a;styles[b];StyleSheet.create({a:{}, b:{}});
ReceiversText ==
  <<"t","h","i","s",".","s","t","y","l","e","s",".","a",";","p","r","o","p","s",".","s","t","y","l","e","s",".","a",";","t",".","a",";","s","t","y","l","e","s","[","b","]",";">>
    \o BlockHead \o declaration(1) \o <<","," ">> \o declaration(2)
    \o BlockTail

\* bindings that are no aliases: a variable initialised from an alias, a
\* function parameter, a destructuring binding
\* const s = styles;const t = s;t.a;function f(u){u.a;}const {b} = styles;
\* StyleSheet.create({a:{}, b:{}});
AliasChainText ==
  <<"c","o","n","s","t"," ","s"," ","="," ","s","t","y","l","e","s",";","c","o","n","s","t"," ","t"," ","="," ","s",";","t",".","a",";","f","u","n","c","t","i","o","n"," ","f","(","u",")","{","u",".","a",";","}","c","o","n","s","t"," ","{","b","}"," ","="," ","s","t","y","l","e","s",";">>
    \o BlockHead \o declaration(1) \o <<","," ">> \o declaration(2)
    \o BlockTail

\* the contents for the claims about what counts as a declaration, as a
\* use, and about a fault of the parser
Shapes ==
  {DuplicateText, TwoBlocksText, ClassNameText, MembersText,
   MembersAndDeclarationText, FaultText, ReceiversText, AliasChainText}

(***************************************************************************)
(* The state machine: the calls a user of the class makes for one file     *)
(* (scanFile, and removeUnusedStyles as the interactive commands call it,  *)
(* after a scan of the file), and the edits of other processes while the   *)
(* scanner waits for the answer to its delete prompt.                      *)
(***************************************************************************)
NoCall ==
  [op |-> "none", unusedNames |-> {}, before |-> <<>>, prevResult |-> <<>>,
   prevClean |-> FALSE, prevCache |-> <<>>, threw |-> FALSE]

\* the command-line program has not been started
cliIdle ==
  /\ pc = "idle"
  /\ mode = "none"
  /\ files = <<>>
  /\ idx = 0
  /\ results = <<>>
  /\ answer = ""
  /\ exitCode = "none"
  /\ reads = {}
  /\ scans = {}
  /\ attempted = {}
  /\ rlOpen = TRUE

\* the scanner does not watch
watchIdle ==
  /\ config = <<>>
  /\ events = 0
  /\ invocations = <<>>
  /\ running = 0

Init ==
  /\ cliIdle
  /\ watchIdle
  /\ build \in Builds
  /\ file \in Paths
  /\ readOnly \in BOOLEAN
  /\ \E content \in Contents :
       disk = IF file = "App.tsx" THEN (file :> content)
              ELSE IF file = "App.test.tsx" THEN (file :> TestFileText)
              ELSE <<>>
  /\ sourceFileCache = <<>>
  /\ result = <<>>
  /\ success = "none"
  /\ edits = 0
  /\ calls = 0
  /\ clean = FALSE
  /\ last = NoCall

\* what a call or an edit starts from
callRecord(op, unusedNames) ==
  [op |-> op, unusedNames |-> unusedNames, before |-> readFile(disk, file),
   prevResult |-> result, prevClean |-> clean,
   prevCache |-> sourceFileCache, threw |-> FALSE]

\* scanner.scanFile(file)
ScanFile ==
  /\ calls < MaxCalls
  /\ calls' = calls + 1
  /\ \E scanned \in {scanFile(disk, sourceFileCache, file)} :
       /\ result' = IF scanned.threw THEN result ELSE scanned.usage
       /\ sourceFileCache' = scanned.cache
       /\ last' = [callRecord("scanFile", {}) EXCEPT !.threw = scanned.threw]
  /\ clean' = TRUE
  /\ UNCHANGED <<build, file, readOnly, disk, success, edits>>
  /\ UNCHANGED cliVars
  /\ UNCHANGED watchVars

\* the entry of the scan result for name; for a name the result does not
\* define, an entry as a caller would write it
styleNamed(usage, name) ==
  LET found == SelectSeq(usage.definedStyles,
                         LAMBDA style : style.name = name)
  IN  IF found = <<>> THEN [name |-> name, startLine |-> 1, endLine |-> 1]
      ELSE found[1]

\* the list of the styles with a name in S, in the order of the block
stylesNamed(usage, S) ==
  LET order == SelectSeq([i \in 1..MaxDecls |-> declName(i)],
                         LAMBDA name : name \in S)
  IN  [i \in 1..Len(order) |-> styleNamed(usage, order[i])]

\* the lists removeUnusedStyles is called with for a scan result: every
\* list of declaration names, result.unusedStyles (what the interactive
\* commands pass) among them
TargetLists(usage) == {stylesNamed(usage, S) : S \in SUBSET DeclNames}

\* this.removeUnusedStyles(file, unusedStyles), called with the result of
\* the scan of the file that came before it
RemoveUnusedStyles(unusedStyles) ==
  /\ calls < MaxCalls
  /\ last.op \in {"scanFile", "edit"}
  /\ calls' = calls + 1
  /\ \E done \in {removeUnusedStyles(disk, sourceFileCache, file,
                                       unusedStyles, ~readOnly)} :
       /\ success' = done.success
       /\ disk' = done.disk
       /\ sourceFileCache' = done.cache
       /\ clean' = IF done.success = "true" THEN FALSE ELSE clean
  /\ last' = callRecord("removeUnusedStyles", namesOf(unusedStyles))
  /\ UNCHANGED <<build, file, readOnly, result, edits>>
  /\ UNCHANGED cliVars
  /\ UNCHANGED watchVars

\* another process changes the file system to newDisk while the scanner
\* waits after a scan
Edited(newDisk) ==
  /\ edits < MaxEdits
  /\ last.op = "scanFile"
  /\ newDisk # disk
  /\ disk' = newDisk
  /\ edits' = edits + 1
  /\ clean' = FALSE
  /\ last' = callRecord("edit", {})
  /\ UNCHANGED <<build, file, readOnly, sourceFileCache, result, success,
                 calls>>
  /\ UNCHANGED cliVars
  /\ UNCHANGED watchVars

\* another process removes the declaration of name from the file
EditRemoveDeclaration(name) ==
  /\ file \in DOMAIN disk
  /\ Edited([disk EXCEPT ![file] = rewritten(@, @, {name})])

\* another process appends a use of the first style to the file
EditAddUse ==
  /\ file \in DOMAIN disk
  /\ Edited([disk EXCEPT ![file] =
               @ \o Words_styles \o <<".">> \o declName(1) \o <<";">>])

\* another process empties the file
EditTruncate ==
  /\ file \in DOMAIN disk
  /\ Edited([disk EXCEPT ![file] = <<>>])

\* another process deletes the file
EditDelete ==
  /\ file \in DOMAIN disk
  /\ Edited([f \in DOMAIN disk \ {file} |-> disk[f]])

Next ==
  \/ ScanFile
  \/ /\ result # <<>>
     /\ \E unusedStyles \in TargetLists(result[1]) :
          RemoveUnusedStyles(unusedStyles)
  \/ \E name \in DeclNames : EditRemoveDeclaration(name)
  \/ EditAddUse
  \/ EditTruncate
  \/ EditDelete

Spec == Init /\ [][Next]_vars

\* the same calls and edits on a file App.tsx with one of the Shapes
InitShapes ==
  /\ cliIdle
  /\ watchIdle
  /\ build \in Builds
  /\ file = "App.tsx"
  /\ readOnly \in BOOLEAN
  /\ \E content \in Shapes : disk = (file :> content)
  /\ sourceFileCache = <<>>
  /\ result = <<>>
  /\ success = "none"
  /\ edits = 0
  /\ calls = 0
  /\ clean = FALSE
  /\ last = NoCall

SpecShapes == InitShapes /\ [][Next]_vars

(***************************************************************************)
(* The command-line program, on a folder src:                              *)
(*     src/A.tsx   src/B.test.tsx   src/notes.md                           *)
(*     src/node_modules/C.tsx       src/ui/B.tsx                           *)
(***************************************************************************)
\* fs.readdirSync(dirPath): the entries of a directory, in its order
readdirSync(dirPath) ==
  IF dirPath = "src"
  THEN <<"A.tsx", "B.test.tsx", "node_modules", "notes.md", "ui">>
  ELSE IF dirPath = "src/node_modules" THEN <<"C.tsx">>
  ELSE IF dirPath = "src/ui" THEN <<"B.tsx">>
  ELSE <<>>

\* fs.statSync(path).isDirectory()
isDirectory(path) == path \in {"src", "src/node_modules", "src/ui"}

\* the files of the folder; A.tsx and ui/B.tsx are the files a scan is to
\* reach
FileA == "src/A.tsx"

FileB == "src/ui/B.tsx"

SourceFiles == {FileA, FileB, "src/B.test.tsx", "src/node_modules/C.tsx"}

\* fs.existsSync(path)
existsSync(path) ==
  isDirectory(path) \/ path \in SourceFiles \cup {"src/notes.md"}

\* path.join(dirPath, file)
join(dirPath, entry) == dirPath \o "/" \o entry

\* path.extname(file)
extname(path) ==
  IF path \in SourceFiles THEN ".tsx"
  ELSE IF path = "src/notes.md" THEN ".md"
  ELSE ""

\* this.options.extensions by default
extensions == {".tsx", ".ts", ".jsx", ".js"}

\* getAllFiles(dirPath, arrayOfFiles), the entries from the i-th on: the
\* files collected, and (dirs) the directories whose entries were read
RECURSIVE getAllFilesFrom(_, _, _)
getAllFilesFrom(dirPath, i, acc) ==
  IF i > Len(readdirSync(dirPath)) THEN acc
  ELSE
    LET fullPath == join(dirPath, readdirSync(dirPath)[i]) IN
    getAllFilesFrom(dirPath, i + 1,
      IF shouldIgnore(fullPath) THEN acc
      ELSE IF isDirectory(fullPath)
      THEN getAllFilesFrom(fullPath, 1,
             [acc EXCEPT !.dirs = @ \cup {fullPath}])
      ELSE IF extname(fullPath) \in extensions
      THEN [acc EXCEPT !.files = Append(@, fullPath)]
      ELSE acc)

getAllFiles(dirPath) ==
  getAllFilesFrom(dirPath, 1, [files |-> <<>>, dirs |-> {dirPath}])

\* the paths scanFile(filePath) passes to fs.readFileSync: the ignore
\* patterns are tested first, and an ignored path is not read
scanFileReads(filePath) == IF shouldIgnore(filePath) THEN {} ELSE {filePath}

\* String.prototype.toLowerCase, for the answers of the model
toLowerCase(text) ==
  IF text \in {"Y", "y"} THEN "y"
  ELSE IF text \in {"YES", "Yes", "yes"} THEN "yes"
  ELSE text

\* an answer that is taken for a yes unless it is "no"
isNotNo(deleteChoice) == toLowerCase(deleteChoice) # "no"

\* deleteChoice.toLowerCase() === "yes" || deleteChoice.toLowerCase() === "y"
isYes(deleteChoice) ==
  toLowerCase(deleteChoice) = "yes" \/ toLowerCase(deleteChoice) = "y"

\* what the user may type at the delete prompt (askQuestion trims it)
Answers == {"y", "YES", "no", "yep", ""}

\* what the user may type at the scan mode prompt
ScanModes == {"1", "2", "3"}

\* the argument of a direct scan, the path typed in interactive mode
DirectTargets == {"src", FileA, "src/B.test.tsx", "gone"}

InputPaths == {"src", FileA, "src/notes.md", "gone"}

\* the contents of A.tsx and ui/B.tsx: the only style unused, one of two
\* styles unused, the only style used
CliContents ==
  {fileText(1, Layouts[1], FALSE, Usages[1]),
   fileText(2, Layouts[1], FALSE, Usages[2]),
   fileText(1, Layouts[1], FALSE, Usages[2])}

\* fs.writeFileSync succeeds for path
writeOk(path) == ~(readOnly /\ path = file)

\* result && result.definedStyles.length > 0
hasStyles(usage) == usage # <<>> /\ Len(usage[1].definedStyles) > 0

\* results.some((r) => r.unusedStyles.length > 0)
hasUnused(rs) == \E i \in 1..Len(rs) : Len(rs[i].unusedStyles) > 0

\* a program that never reports a failure
exitZero(rs) == 0

\* the exit code of the direct scan: process.exit(1) when some result has
\* unused styles, else the program runs to its end
directExitCode(rs) == IF hasUnused(rs) THEN 1 ELSE 0

\* a loop that ends with the first rewrite that did not succeed
stopAtFailure(i, ok) == IF ok = "true" THEN i + 1 ELSE Len(results) + 1

\* for (const result of results): the next index, whatever the rewrite
\* of results[i] returned
nextResult(i, ok) == i + 1

\* A.tsx may be unreadable (listed in the folder, but fs.readFileSync
\* throws); one of the two source files may be read-only
InitCli ==
  /\ build \in Builds
  /\ file \in {FileA, FileB}
  /\ readOnly \in BOOLEAN
  /\ \E readable \in BOOLEAN, a \in CliContents, b \in CliContents :
       /\ ~readable => a = fileText(1, Layouts[1], FALSE, Usages[1])
       /\ disk = (IF readable THEN (FileA :> a) ELSE <<>>)
                   @@ (FileB :> b)
                   @@ ("src/B.test.tsx" :> TestFileText)
                   @@ ("src/node_modules/C.tsx" :> TestFileText)
  /\ sourceFileCache = <<>>
  /\ result = <<>>
  /\ success = "none"
  /\ edits = 0
  /\ calls = 0
  /\ clean = FALSE
  /\ last = NoCall
  /\ pc = "start"
  /\ mode = "none"
  /\ files = <<>>
  /\ idx = 0
  /\ results = <<>>
  /\ answer = ""
  /\ exitCode = "none"
  /\ reads = {}
  /\ scans = {}
  /\ attempted = {}
  /\ rlOpen = TRUE
  /\ watchIdle

\* the variables of the engine's history, which the program leaves alone
engineHistory == <<build, file, readOnly, edits, calls, clean, last>>

\* a program that never closes the readline interface
neverClose(pcNow, pcNext, m, open) == open

\* this.rl.close() before every return of interactiveScan, and
\* scanner.close() in the catch of the interactive dispatch; the direct
\* scan calls scanner.close() after its report and nowhere else
closeBeforeReturn(pcNow, pcNext, m, open) ==
  IF pcNext = "done" THEN FALSE
  ELSE IF pcNext = "exited" /\ m # "direct" THEN FALSE
  ELSE IF pcNext = "exited" /\ pcNow = "report" THEN FALSE
  ELSE open

\* unused-css-scanner <target>
StartDirect(target) ==
  /\ pc = "start"
  /\ mode' = "direct"
  /\ IF ~existsSync(target)
     THEN /\ pc' = "exited"
          /\ exitCode' = 1
          /\ UNCHANGED <<files, idx>>
     ELSE /\ pc' = "scan"
          /\ files' = IF isDirectory(target) THEN getAllFiles(target).files
                      ELSE <<target>>
          /\ idx' = 1
          /\ UNCHANGED exitCode
  /\ UNCHANGED <<disk, sourceFileCache, result, success, results, answer,
                 reads, scans, attempted>>
  /\ UNCHANGED engineHistory
  /\ UNCHANGED watchVars
  /\ rlOpen' = closeBeforeReturn(pc, pc', mode', rlOpen)

\* interactiveScan(), the path typed at its first prompt
StartInteractive(inputPath) ==
  LET allFiles ==
        IF ~existsSync(inputPath) THEN <<>>
        ELSE IF isDirectory(inputPath) THEN getAllFiles(inputPath).files
        ELSE IF extname(inputPath) \in extensions THEN <<inputPath>>
        ELSE <<>>
  IN
  /\ pc = "start"
  /\ files' = allFiles
  /\ idx' = 1
  /\ mode' = IF Len(allFiles) = 1 THEN "single" ELSE "interactive"
  /\ pc' = IF Len(allFiles) = 0 THEN "done"
           ELSE IF Len(allFiles) = 1 THEN "scan"
           ELSE "chooseMode"
  /\ UNCHANGED <<disk, sourceFileCache, result, success, results, answer,
                 exitCode, reads, scans, attempted>>
  /\ UNCHANGED engineHistory
  /\ UNCHANGED watchVars
  /\ rlOpen' = closeBeforeReturn(pc, pc', mode', rlOpen)

\* the answer to the scan mode prompt
ChooseMode(scanMode) ==
  /\ pc = "chooseMode"
  /\ mode' = IF scanMode = "1" THEN "all"
             ELSE IF scanMode = "2" THEN "oneByOne"
             ELSE mode
  /\ pc' = IF scanMode \in {"1", "2"} THEN "scan" ELSE "done"
  /\ UNCHANGED <<disk, sourceFileCache, result, success, files, idx,
                 results, answer, exitCode, reads, scans, attempted>>
  /\ UNCHANGED engineHistory
  /\ UNCHANGED watchVars
  /\ rlOpen' = closeBeforeReturn(pc, pc', mode', rlOpen)

\* what follows the file files[idx] in scanSingleFileInteractive (the
\* only file) and in the loop of scanFilesOneByOne
AfterFile ==
  IF mode = "oneByOne" /\ idx < Len(files)
  THEN /\ pc' = "scan"
       /\ idx' = idx + 1
  ELSE /\ pc' = "done"
       /\ UNCHANGED idx

\* what the program does with the outcome of scanFile(filePath): a fault
\* that scanFile lets through ends the program with exit code 1; the direct
\* scan and scanAllFiles keep a result that has definedStyles; the
\* file-by-file modes prompt when it has unusedStyles
Scanned(filePath, scanned) ==
  /\ scans' = scans \cup {filePath}
  /\ reads' = reads \cup scanFileReads(filePath)
  /\ sourceFileCache' = scanned.cache
  /\ result' = scanned.usage
  /\ IF scanned.threw
     THEN /\ pc' = "exited"
          /\ exitCode' = 1
          /\ UNCHANGED <<idx, results>>
     ELSE IF mode \in {"direct", "all"}
     THEN /\ results' = IF hasStyles(scanned.usage)
                        THEN Append(results, scanned.usage[1])
                        ELSE results
          /\ idx' = idx + 1
          /\ pc' = IF idx = Len(files) THEN "report" ELSE "scan"
          /\ UNCHANGED exitCode
     ELSE /\ IF hasStyles(scanned.usage)
                /\ Len(scanned.usage[1].unusedStyles) > 0
             THEN /\ pc' = "prompt"
                  /\ UNCHANGED idx
             ELSE AfterFile
          /\ UNCHANGED <<results, exitCode>>

\* the next scanFile(files[idx]) of the loop, or the only one
ScanNext ==
  /\ pc = "scan"
  /\ idx <= Len(files)
  /\ Scanned(files[idx], scanFile(disk, sourceFileCache, files[idx]))
  /\ UNCHANGED <<disk, success, mode, files, answer, attempted>>
  /\ UNCHANGED engineHistory
  /\ UNCHANGED watchVars
  /\ rlOpen' = closeBeforeReturn(pc, pc', mode', rlOpen)

\* after the loop: generateReport and the exit code of the direct scan,
\* the summary and the hasUnused test of scanAllFiles
Report ==
  /\ pc = "report"
  /\ IF mode = "direct"
     THEN /\ exitCode' = directExitCode(results)
          /\ pc' = "exited"
     ELSE /\ pc' = IF hasUnused(results) THEN "prompt" ELSE "done"
          /\ UNCHANGED exitCode
  /\ UNCHANGED <<disk, sourceFileCache, result, success, mode, files, idx,
                 results, answer, reads, scans, attempted>>
  /\ UNCHANGED engineHistory
  /\ UNCHANGED watchVars
  /\ rlOpen' = closeBeforeReturn(pc, pc', mode', rlOpen)

\* the answer to the delete prompt
Answer(deleteChoice) ==
  /\ pc = "prompt"
  /\ answer' = deleteChoice
  /\ IF isYes(deleteChoice)
     THEN /\ pc' = "remove"
          /\ idx' = IF mode = "all" THEN 1 ELSE idx
     ELSE IF mode = "all"
     THEN /\ pc' = "done"
          /\ UNCHANGED idx
     ELSE AfterFile
  /\ UNCHANGED <<disk, sourceFileCache, result, success, mode, files,
                 results, exitCode, reads, scans, attempted>>
  /\ UNCHANGED engineHistory
  /\ UNCHANGED watchVars
  /\ rlOpen' = closeBeforeReturn(pc, pc', mode', rlOpen)

\* removeUnusedStyles for the file the user confirmed, or for the next
\* result of the batch the user confirmed
\* what the program does with the outcome of removeUnusedStyles(filePath):
\* an exception leaves through interactiveScan().catch with exit code 1,
\* true and false both lead to the next result or file
Removed(filePath, done) ==
  /\ disk' = done.disk
  /\ sourceFileCache' = done.cache
  /\ success' = done.success
  /\ attempted' = attempted \cup {filePath}
  /\ reads' = reads \cup {filePath}
  /\ IF done.success = "throws"
     THEN /\ pc' = "exited"
          /\ exitCode' = 1
          /\ UNCHANGED idx
     ELSE IF mode = "all"
     THEN /\ idx' = nextResult(idx, done.success)
          /\ pc' = IF nextResult(idx, done.success) > Len(results)
                   THEN "done" ELSE "remove"
          /\ UNCHANGED exitCode
     ELSE /\ AfterFile
          /\ UNCHANGED exitCode

\* if (result.unusedStyles.length > 0) removeUnusedStyles(result.file,
\* result.unusedStyles); the file-by-file modes get here only with unused styles
RemoveFor(usage) ==
  IF mode = "all" /\ Len(usage.unusedStyles) = 0
  THEN /\ idx' = idx + 1
       /\ pc' = IF idx = Len(results) THEN "done" ELSE "remove"
       /\ UNCHANGED <<disk, sourceFileCache, success, exitCode, reads,
                      attempted>>
  ELSE Removed(usage.file,
               removeUnusedStyles(disk, sourceFileCache, usage.file,
                                  usage.unusedStyles, writeOk(usage.file)))

Remove ==
  /\ pc = "remove"
  /\ RemoveFor(IF mode = "all" THEN results[idx] ELSE result[1])
  /\ UNCHANGED <<result, mode, files, results, answer, scans>>
  /\ UNCHANGED engineHistory
  /\ UNCHANGED watchVars
  /\ rlOpen' = closeBeforeReturn(pc, pc', mode', rlOpen)

NextCli ==
  \/ \E target \in DirectTargets : StartDirect(target)
  \/ \E inputPath \in InputPaths : StartInteractive(inputPath)
  \/ \E scanMode \in ScanModes : ChooseMode(scanMode)
  \/ ScanNext
  \/ Report
  \/ \E deleteChoice \in Answers : Answer(deleteChoice)
  \/ Remove

SpecCli == InitCli /\ [][NextCli]_vars

(***************************************************************************)
(* The regular-expression engine of src/dist/index.js, the build that has  *)
(* watch mode.  A regular expression is modelled by the matcher it         *)
(* compiles to: the leftmost match, greedy quantifiers.                    *)
(***************************************************************************)
\* the characters the class \w matches
IsWordChar(c) == c \in Letters \cup Digits \cup {"_"}

\* first position >= p that holds no \w character
wordEnd(t, p) ==
  LET S == {k \in p..Len(t) : ~IsWordChar(t[k])}
  IN  IF S = {} THEN Len(t) + 1 ELSE MinOf(S)

\* position of the first "}" after position p; 0 when there is none
firstCloseAfter(t, p) ==
  LET S == {k \in (p + 1)..Len(t) : t[k] = "}"}
  IN  IF S = {} THEN 0 ELSE MinOf(S)

Words_StyleSheetCreate ==
  <<"S","t","y","l","e","S","h","e","e","t",".","c","r","e","a","t","e">>

Words_stylesDot == <<"s","t","y","l","e","s",".">>

Words_className == <<"c","l","a","s","s","N","a","m","e">>

\* the position of the "{" that /StyleSheet\.create\s*\(\s*\{/ matches when
\* tried at p; 0 when it does not match there
blockOpenAt(t, p) ==
  IF ~wordAt(t, p, Words_StyleSheetCreate) THEN 0
  ELSE LET paren == skipTrivia(t, p + Len(Words_StyleSheetCreate))
           brace == skipTrivia(t, paren + 1)
       IN  IF charAt(t, paren) = "(" /\ charAt(t, brace) = "{"
           THEN brace ELSE 0

\* the position of the "}" at which ([\s\S]*?)\}\s*\) ends the block opened
\* at brace: the first "}" that only whitespace separates from a ")"
blockCloseOf(t, brace) ==
  LET S == {k \in (brace + 1)..Len(t) :
              t[k] = "}" /\ charAt(t, skipTrivia(t, k + 1)) = ")"}
  IN  IF S = {} THEN 0 ELSE MinOf(S)

\* content.match(styleSheetRegex): <<>> is null, else the match with
\* (index) match.index, (open) the offset of its "{" and (block) match[1]
styleSheetMatch(t) ==
  LET S == {p \in 1..Len(t) :
              blockOpenAt(t, p) # 0 /\ blockCloseOf(t, blockOpenAt(t, p)) # 0}
  IN  IF S = {} THEN <<>>
      ELSE LET p     == MinOf(S)
               brace == blockOpenAt(t, p)
           IN  << [index |-> p - 1,
                   open  |-> brace - 1,
                   block |-> SubSeq(t, brace + 1, blockCloseOf(t, brace) - 1)] >>

\* the position of the "}" that ends a match of (\w+)\s*:\s*\{[^}]*\}
\* starting at p; 0 when the expression does not match at p
definitionCloseAt(b, p) ==
  IF ~IsWordChar(charAt(b, p)) THEN 0
  ELSE LET colon == skipTrivia(b, wordEnd(b, p))
           brace == skipTrivia(b, colon + 1)
       IN  IF charAt(b, colon) = ":" /\ charAt(b, brace) = "{"
           THEN firstCloseAfter(b, brace) ELSE 0

\* the matches of styleDefinitionRegex.exec(styleBlock) from position p on:
\* the name and the offsets of the match in the block
RECURSIVE styleMatches(_, _)
styleMatches(b, p) ==
  IF p > Len(b) THEN <<>>
  ELSE IF definitionCloseAt(b, p) = 0 THEN styleMatches(b, p + 1)
  ELSE << [name  |-> SubSeq(b, p, wordEnd(b, p) - 1),
           index |-> p - 1,
           end   |-> definitionCloseAt(b, p)] >>
       \o styleMatches(b, definitionCloseAt(b, p) + 1)

\* content.substring(0, pos).split("\n").length
lineOfOffset(t, pos) ==
  1 + Cardinality({k \in 1..Clamp(pos, Len(t)) : t[k] = "\n"})

\* extractDefinedStyles(content) of src/dist/index.js
extractDefinedStylesByRegex(content) ==
  LET match == styleSheetMatch(content) IN
  IF match = <<>> THEN <<>>
  ELSE LET blockStartIndex == match[1].open + 1
           found == styleMatches(match[1].block, 1)
       IN  [i \in 1..Len(found) |->
              [name      |-> found[i].name,
               startLine |-> lineOfOffset(content,
                                          blockStartIndex + found[i].index),
               endLine   |-> lineOfOffset(content,
                                          blockStartIndex + found[i].end)]]

\* the names /styles\.(\w+)/g captures from position p on
RECURSIVE directMatches(_, _)
directMatches(t, p) ==
  IF p > Len(t) THEN <<>>
  ELSE IF wordAt(t, p, Words_stylesDot)
          /\ IsWordChar(charAt(t, p + Len(Words_stylesDot)))
  THEN LET from == p + Len(Words_stylesDot) IN
       <<SubSeq(t, from, wordEnd(t, from) - 1)>>
       \o directMatches(t, wordEnd(t, from))
  ELSE directMatches(t, p + 1)

\* the character ` (a string of this notation cannot hold it)
Backquote == "backquote"

Quotes == {"\"", "'", Backquote}

\* first position >= p that holds a quote character
quoteFrom(t, p) ==
  LET S == {k \in p..Len(t) : t[k] \in Quotes}
  IN  IF S = {} THEN 0 ELSE MinOf(S)

\* the position of the closing quote of a match of
\* /className\s*=\s*["'`]([^"'`]+)["'`]/ starting at p; 0 for no match
classNameCloseAt(t, p) ==
  IF ~wordAt(t, p, Words_className) THEN 0
  ELSE LET eq    == skipTrivia(t, p + Len(Words_className))
           open  == skipTrivia(t, eq + 1)
           close == quoteFrom(t, open + 1)
       IN  IF /\ charAt(t, eq) = "="
              /\ charAt(t, open) \in Quotes
              /\ close > open + 1
           THEN close ELSE 0

\* s.split(/\s+/): the pieces between the runs of whitespace, the empty
\* piece before a leading and after a trailing run included
RECURSIVE splitOnWhitespace(_, _)
splitOnWhitespace(s, piece) ==
  IF s = <<>> THEN <<piece>>
  ELSE IF Head(s) \in Whitespace
  THEN <<piece>> \o splitOnWhitespace(
                      SubSeq(s, skipTrivia(s, 1), Len(s)), <<>>)
  ELSE splitOnWhitespace(Tail(s), Append(piece, Head(s)))

\* the class names the matches of classNameRegex give from position p on
RECURSIVE classNameMatches(_, _)
classNameMatches(t, p) ==
  IF p > Len(t) THEN <<>>
  ELSE IF classNameCloseAt(t, p) = 0 THEN classNameMatches(t, p + 1)
  ELSE LET close == classNameCloseAt(t, p)
           open  == skipTrivia(t, skipTrivia(t, p + Len(Words_className)) + 1)
       IN  splitOnWhitespace(SubSeq(t, open + 1, close - 1), <<>>)
           \o classNameMatches(t, close + 1)

\* extractUsedStyles(content) of src/dist/index.js
extractUsedStylesByRegex(content) ==
  setInsertionOrder(directMatches(content, 1) \o classNameMatches(content, 1),
                    <<>>)

\* scanFile(filePath) of src/dist/index.js: <<>> is null
scanFileByRegex(d, filePath) ==
  IF shouldIgnore(filePath) THEN <<>>
  ELSE LET content == readFile(d, filePath) IN
    IF falsy(content) THEN <<>>
    ELSE LET definedStyles == extractDefinedStylesByRegex(content[1])
             usedStyles    == extractUsedStylesByRegex(content[1])
         IN  << [file          |-> filePath,
                 definedStyles |-> definedStyles,
                 usedStyles    |-> usedStyles,
                 unusedStyles  |->
                   filterUnused(definedStyles, usedStyles)] >>

\* the position after a match of \s*NAME\s*:\s*\{[^}]*\}\s*,?\s* that starts
\* at p; 0 when styleDefRegex does not match at p
styleDefEndAt(b, name, p) ==
  LET at    == skipTrivia(b, p)
      colon == skipTrivia(b, at + Len(name))
      brace == skipTrivia(b, colon + 1)
      close == firstCloseAfter(b, brace)
      comma == skipTrivia(b, close + 1)
  IN  IF /\ wordAt(b, at, name)
         /\ charAt(b, colon) = ":"
         /\ charAt(b, brace) = "{"
         /\ close # 0
      THEN IF charAt(b, comma) = "," THEN skipTrivia(b, comma + 1)
           ELSE comma
      ELSE 0

\* styleBlock.replace(styleDefRegex, ""), from position p on
RECURSIVE replaceStyleDef(_, _, _)
replaceStyleDef(b, name, p) ==
  IF p > Len(b) THEN <<>>
  ELSE IF styleDefEndAt(b, name, p) # 0
  THEN replaceStyleDef(b, name, styleDefEndAt(b, name, p))
  ELSE <<b[p]>> \o replaceStyleDef(b, name, p + 1)

\* for (const unusedStyle of unusedStyles) styleBlock = styleBlock.replace(...)
RECURSIVE replaceStyleDefs(_, _)
replaceStyleDefs(b, unusedStyles) ==
  IF unusedStyles = <<>> THEN b
  ELSE replaceStyleDefs(replaceStyleDef(b, Head(unusedStyles).name, 1),
                        Tail(unusedStyles))

\* styleBlock.replace(/,(\s*$)/g, "$1"): a comma that only whitespace
\* separates from the end of the block is taken out
replaceTrailingComma(b) ==
  LET S == {k \in 1..Len(b) :
              b[k] = "," /\ \A j \in (k + 1)..Len(b) : b[j] \in Whitespace}
  IN  IF S = {} THEN b
      ELSE SubSeq(b, 1, MinOf(S) - 1) \o SubSeq(b, MinOf(S) + 1, Len(b))

\* styleBlock.replace(/,\s*,/g, ","), from position p on
RECURSIVE replaceDoubleCommas(_, _)
replaceDoubleCommas(b, p) ==
  IF p > Len(b) THEN <<>>
  ELSE IF b[p] = "," /\ charAt(b, skipTrivia(b, p + 1)) = ","
  THEN <<",">> \o replaceDoubleCommas(b, skipTrivia(b, p + 1) + 1)
  ELSE <<b[p]>> \o replaceDoubleCommas(b, p + 1)

\* String.prototype.indexOf(pattern) for a string pattern: -1 when absent
indexOfString(t, pattern) ==
  LET S == {k \in 1..(Len(t) + 1) : wordAt(t, k, pattern)}
  IN  IF S = {} THEN -1 ELSE MinOf(S) - 1

\* GetSubstitution for a string pattern: in the replacement, $$ is a "$",
\* $& the matched text, $` the text before the match and $' the text
\* after it; every other character stands for itself
RECURSIVE substitution(_, _, _, _)
substitution(replacement, matched, before, after) ==
  IF replacement = <<>> THEN <<>>
  ELSE IF Head(replacement) = "$" /\ Len(replacement) >= 2
          /\ replacement[2] \in {"$", "&", Backquote, "'"}
  THEN (CASE replacement[2] = "$" -> <<"$">>
          [] replacement[2] = "&" -> matched
          [] replacement[2] = Backquote -> before
          [] replacement[2] = "'" -> after)
       \o substitution(SubSeq(replacement, 3, Len(replacement)),
                       matched, before, after)
  ELSE <<Head(replacement)>>
       \o substitution(Tail(replacement), matched, before, after)

\* content.replace(pattern, replacement) for a string pattern: the first
\* occurrence of the pattern is replaced
replaceString(content, pattern, replacement) ==
  LET at == indexOfString(content, pattern) IN
  IF at = -1 THEN content
  ELSE LET before == SubSeq(content, 1, at)
           after  == SubSeq(content, at + Len(pattern) + 1, Len(content))
       IN  before \o substitution(replacement, pattern, before, after)
           \o after

\* the text removeUnusedStyles of src/dist/index.js computes for the
\* content it read: <<>> when it returns false before writing
newContentByRegex(content, unusedStyles) ==
  IF falsy(content) THEN <<>>
  ELSE LET match == styleSheetMatch(content[1]) IN
    IF match = <<>> THEN <<>>
    ELSE LET originalStyleBlock == match[1].block
             styleBlock ==
               replaceDoubleCommas(
                 replaceTrailingComma(
                   replaceStyleDefs(originalStyleBlock, unusedStyles)), 1)
         IN  <<replaceString(content[1], originalStyleBlock, styleBlock)>>

(***************************************************************************)
(* Watch mode (src/dist/index.js): startWatchMode, the callback of         *)
(* fs.watch, and the handleFileChange invocations it starts.  JavaScript   *)
(* runs one invocation at a time: an invocation that has the thread keeps  *)
(* it until it reaches an await or returns.                                *)
(***************************************************************************)
\* the numbers of change events fs.watch reports for one save of the file
\* by another process
BurstSizes == {1, 2}

\* the most handleFileChange invocations that can be pending at a time:
\* one per change event, and an invocation raises at most one event
MaxInvocations == MaxOf(BurstSizes) * MaxEdits

\* StyleSheet.create({a:{}, b:{}});styles.b;
OneUnusedText ==
  BlockHead \o declaration(1) \o <<","," ">> \o declaration(2) \o BlockTail
    \o Words_stylesDot \o declName(2) \o <<";">>

\* StyleSheet.create({a:{}});styles.a;
AllUsedText ==
  BlockHead \o declaration(1) \o BlockTail
    \o Words_stylesDot \o declName(1) \o <<";">>

\* /*a:{}*/StyleSheet.create({a:{}});  The text of the block stands in a
\* comment before the block as well.
CommentedCopyText ==
  <<"/","*">> \o declaration(1) \o <<"*","/">>
    \o BlockHead \o declaration(1) \o BlockTail

\* StyleSheet.create({a:{},$&});  A file as it is saved while it is being
\* written: the block holds the two characters $&.
DollarText ==
  BlockHead \o declaration(1) \o <<",","$","&">> \o BlockTail

\* the texts the watched file is saved with
WatchContents ==
  {OneUnusedText, AllUsedText, CommentedCopyText, DollarText, NoBlockText}

\* the states of this.config: <<>> is null (no .unused-css-scanner.json)
Configs ==
  {<<>>} \cup {<<[scanOnSave |-> s, autoFix |-> a]>> : s, a \in BOOLEAN}

\* a slot that holds no invocation
noInvocation == [at |-> "none", usage |-> <<>>, newContent |-> <<>>]

\* unused-css-scanner watch: the scanner is constructed, the configuration
\* is loaded, the file src/A.tsx exists
InitWatch ==
  /\ build = "dist"
  /\ file = FileA
  /\ readOnly \in BOOLEAN
  /\ \E content \in WatchContents : disk = (FileA :> content)
  /\ sourceFileCache = <<>>
  /\ result = <<>>
  /\ success = "none"
  /\ edits = 0
  /\ calls = 0
  /\ clean = FALSE
  /\ last = NoCall
  /\ cliIdle
  /\ config \in Configs
  /\ events = 0
  /\ invocations = [i \in 1..MaxInvocations |-> noInvocation]
  /\ running = 0

\* what no step of watch mode changes
watchUnchanged ==
  <<build, file, readOnly, sourceFileCache, result, success, calls, clean,
    last, mode, files, idx, results, answer, reads, scans, attempted,
    rlOpen, config>>

\* startWatchMode(): without a configuration, or with scanOnSave off, it
\* returns; else the folders are watched
StartWatchMode ==
  /\ pc = "idle"
  /\ pc' = IF config = <<>> \/ ~config[1].scanOnSave
           THEN "done" ELSE "watching"
  /\ UNCHANGED <<disk, edits, exitCode, events, invocations, running>>
  /\ UNCHANGED watchUnchanged

\* the change events fs.watch has for a save of the file: none while no
\* watcher is registered
raised(n) == IF pc = "watching" THEN events + n ELSE events

\* another process saves the file with the given content; the save raises
\* n change events
ExternalChange(content, n) ==
  /\ pc \in {"idle", "watching"}
  /\ edits < MaxEdits
  /\ edits' = edits + 1
  /\ disk' = [disk EXCEPT ![file] = content]
  /\ events' = raised(n)
  /\ UNCHANGED <<pc, exitCode, invocations, running>>
  /\ UNCHANGED watchUnchanged

\* a removeUnusedStyles that awaits its write (fs.promises.writeFile)
awaitPointsWithAsyncWrite == {"settle", "write", "removed"}

\* the points at which handleFileChange gives up the thread: the await of
\* the settle delay and the await of removeUnusedStyles, which itself
\* awaits nothing
awaitPoints == {"settle", "removed"}

\* invocation i can take its next step: it has the thread, or the thread
\* is free and i waits at an await
mayStep(i) ==
  \/ running = i
  \/ running = 0 /\ invocations[i].at \in awaitPoints

\* who has the thread after invocation i got to the point at
threadAfter(i, at) == IF at \in awaitPoints \cup {"none"} THEN 0 ELSE i

\* invocation i moves on to the record next
moved(i, next) ==
  /\ invocations' = [invocations EXCEPT ![i] = next]
  /\ running' = threadAfter(i, next.at)

\* the callback of fs.watch for one change event of the file: the checks
\* of the name pass, handleFileChange starts and runs up to its first await
Deliver ==
  /\ pc = "watching"
  /\ events > 0
  /\ running = 0
  /\ events' = events - 1
  /\ IF extname(file) \in extensions /\ ~shouldIgnore(file)
     THEN \E i \in 1..MaxInvocations :
            /\ invocations[i].at = "none"
            /\ \A j \in 1..(i - 1) : invocations[j].at # "none"
            /\ moved(i, [noInvocation EXCEPT !.at = "settle"])
     ELSE UNCHANGED <<invocations, running>>
  /\ UNCHANGED <<pc, disk, edits, exitCode>>
  /\ UNCHANGED watchUnchanged

\* the timer of the settle delay of invocation i ends: the invocation goes
\* on after its first await
TimerFires(i) ==
  /\ pc = "watching"
  /\ invocations[i].at = "settle"
  /\ mayStep(i)
  /\ invocations' = [invocations EXCEPT ![i].at = "scan"]
  /\ running' = i
  /\ UNCHANGED <<pc, disk, edits, exitCode, events>>
  /\ UNCHANGED watchUnchanged

\* the invocation after scanFile returned usage
scanned(usage) ==
  IF /\ hasStyles(usage)
     /\ Len(usage[1].unusedStyles) > 0
     /\ config[1].autoFix
  THEN [noInvocation EXCEPT !.at = "read", !.usage = usage]
  ELSE noInvocation

\* the invocation after removeUnusedStyles has computed newContent
computed(invocation, newContent) ==
  IF newContent = <<>>
  THEN [invocation EXCEPT !.at = "removed"]
  ELSE [invocation EXCEPT !.at = "write", !.newContent = newContent]

\* const result = this.scanFile(filePath) of invocation i and the tests
\* that follow it: without a result, without defined or unused styles, or
\* without autoFix the invocation returns
ScanChanged(i) ==
  /\ pc = "watching"
  /\ invocations[i].at = "scan"
  /\ mayStep(i)
  /\ moved(i, scanned(scanFileByRegex(disk, file)))
  /\ UNCHANGED <<pc, disk, edits, exitCode, events>>
  /\ UNCHANGED watchUnchanged

\* removeUnusedStyles of invocation i up to its write: the file is read and
\* the new content computed; without content or without a block it
\* returns false
RemoveRead(i) ==
  /\ pc = "watching"
  /\ invocations[i].at = "read"
  /\ mayStep(i)
  /\ moved(i, computed(invocations[i],
                       newContentByRegex(readFile(disk, file),
                                         invocations[i].usage[1].unusedStyles)))
  /\ UNCHANGED <<pc, disk, edits, exitCode, events>>
  /\ UNCHANGED watchUnchanged

\* fs.writeFileSync(filePath, newContent) of invocation i: the write raises
\* a change event of the file; when it throws, the catch returns false.
\* Then handleFileChange awaits the promise that removeUnusedStyles returned.
RemoveWrite(i) ==
  /\ pc = "watching"
  /\ invocations[i].at = "write"
  /\ mayStep(i)
  /\ IF writeOk(file)
     THEN /\ disk' = [disk EXCEPT ![file] = invocations[i].newContent[1]]
          /\ events' = raised(1)
     ELSE UNCHANGED <<disk, events>>
  /\ moved(i, [invocations[i] EXCEPT !.at = "removed"])
  /\ UNCHANGED <<pc, edits, exitCode>>
  /\ UNCHANGED watchUnchanged

\* invocation i goes on after the await of removeUnusedStyles, logs the
\* outcome and returns
Finish(i) ==
  /\ pc = "watching"
  /\ invocations[i].at = "removed"
  /\ mayStep(i)
  /\ moved(i, noInvocation)
  /\ UNCHANGED <<pc, disk, edits, exitCode, events>>
  /\ UNCHANGED watchUnchanged

\* SIGINT: stopWatchMode closes the watchers and the process exits
StopWatchMode ==
  /\ pc = "watching"
  /\ running = 0
  /\ pc' = "exited"
  /\ exitCode' = 0
  /\ events' = 0
  /\ invocations' = [i \in 1..MaxInvocations |-> noInvocation]
  /\ UNCHANGED <<disk, edits, running>>
  /\ UNCHANGED watchUnchanged

NextWatch ==
  \/ StartWatchMode
  \/ Deliver
  \/ \E i \in 1..MaxInvocations : TimerFires(i)
  \/ \E i \in 1..MaxInvocations : ScanChanged(i)
  \/ \E i \in 1..MaxInvocations : RemoveRead(i)
  \/ \E i \in 1..MaxInvocations : RemoveWrite(i)
  \/ \E i \in 1..MaxInvocations : Finish(i)
  \/ \E content \in WatchContents, n \in BurstSizes :
       ExternalChange(content, n)
  \/ StopWatchMode

SpecWatch == InitWatch /\ [][NextWatch]_vars

\* the steps the event loop of Node.js takes between the computations of
\* an invocation: a callback to call, a timer that ended, a write, a
\* promise that was resolved
EventLoopStep ==
  \/ StartWatchMode
  \/ Deliver
  \/ \E i \in 1..MaxInvocations : TimerFires(i)
  \/ \E i \in 1..MaxInvocations : RemoveWrite(i)
  \/ \E i \in 1..MaxInvocations : Finish(i)

\* ScanChanged(i) or RemoveRead(i) is enabled: invocation i has the thread
\* and stands before scanFile or before the read of removeUnusedStyles
computing(i) ==
  /\ pc = "watching"
  /\ invocations[i].at \in {"scan", "read"}
  /\ mayStep(i)

\* WF_vars(ScanChanged(i) \/ RemoveRead(i)), written out with the state
\* predicate that enables the two steps: synchronous code that has the
\* thread runs on
ComputationGoesOn ==
  \A i \in 1..MaxInvocations :
    \/ []<>~computing(i)
    \/ []<><<invocations'[i].at # invocations[i].at>>_vars

\* the event loop of Node.js goes on as long as it has something to do
SpecWatchLive ==
  SpecWatch /\ WF_vars(EventLoopStep) /\ ComputationGoesOn

(***************************************************************************)
(* Properties.                                                             *)
(***************************************************************************)
\* the latest operation was a call of op
lastWas(op) == last.op = op

\* the names of a list of styles, in the order of the list
namesInOrder(styles) == [i \in 1..Len(styles) |-> styles[i].name]

\* the elements of seq that satisfy no membership in S, order kept
without(seq, S) == SelectSeq(seq, LAMBDA x : x \notin S)

\* the set of the elements of a sequence
elements(seq) == {seq[i] : i \in 1..Len(seq)}

\* C1: in every scan result the unused list is the defined list restricted
\* to the entries whose name is not in the used list, in the order of the
\* defined list; so unused is a sub-list of defined and no unused name is
\* a used name.
C1_UnusedIsDefinedNotUsed ==
  result # <<>> =>
    LET usage == result[1]
        kept  == ascending({i \in 1..Len(usage.definedStyles) :
                   usage.definedStyles[i].name
                     \notin elements(usage.usedStyles)})
    IN  /\ usage.unusedStyles =
             [k \in 1..Len(kept) |-> usage.definedStyles[kept[k]]]
        /\ elements(usage.unusedStyles) \subseteq elements(usage.definedStyles)
        /\ elements(namesInOrder(usage.unusedStyles))
             \cap elements(usage.usedStyles) = {}

\* a scan has returned a result in which some defined styles are used and
\* some are not
C1_Witness ==
  /\ lastWas("scanFile")
  /\ result # <<>>
  /\ Len(result[1].unusedStyles) >= 1
  /\ Len(result[1].unusedStyles) < Len(result[1].definedStyles)

\* the number of occurrences of the character c among the first k of t
count(t, c, k) == Cardinality({j \in 1..k : t[j] = c})

\* every closing character of t closes an opening one before it, and none
\* is left open
balanced(t, opening, closing) ==
  /\ \A k \in 1..Len(t) : count(t, closing, k) <= count(t, opening, k)
  /\ count(t, closing, Len(t)) = count(t, opening, Len(t))

\* t holds two commas with nothing or only whitespace between them
doubleComma(t) ==
  \E j, k \in 1..Len(t) :
     /\ j < k
     /\ t[j] = "," /\ t[k] = ","
     /\ \A i \in (j + 1)..(k - 1) : t[i] \in Whitespace

\* t holds a StyleSheet.create block whose closing brace follows a comma,
\* with nothing or only whitespace between them
commaBeforeBlockEnd(t) ==
  \E p \in 1..Len(t) :
     /\ isCreateCall(t, p)
     /\ charAt(t, firstArgument(t, p)) = "{"
     /\ LET close == closeBrace(t, firstArgument(t, p) + 1, 1) - 1 IN
        /\ close <= Len(t)
        /\ \E j \in 1..(close - 1) :
              /\ t[j] = ","
              /\ \A i \in (j + 1)..(close - 1) : t[i] \in Whitespace

\* removeUnusedStyles has returned true for a file that was as the scan
\* before it read it, the tree it located the declarations on being the
\* tree of that content
removedAfterScan ==
  /\ lastWas("removeUnusedStyles")
  /\ success = "true"
  /\ last.prevClean
  /\ result # <<>>
  /\ build = "cached" /\ file \in DOMAIN last.prevCache
       => last.prevCache[file] = last.before[1]

\* C2: after a successful removeUnusedStyles for a non-empty set of target
\* names, with or without a trailing comma in the block, the written text
\* has balanced braces and parentheses, no two consecutive commas, and no
\* comma directly before the closing brace of the declaration block.
C2_WrittenTextIsWellFormed ==
  (removedAfterScan /\ last.unusedNames # {}) =>
    /\ balanced(disk[file], "{", "}")
    /\ balanced(disk[file], "(", ")")
    /\ ~doubleComma(disk[file])
    /\ ~commaBeforeBlockEnd(disk[file])

\* C3: after removeUnusedStyles has returned true, a new scanFile of the
\* file reports the names of the previous definedStyles without the removed
\* names, in the same order, and none of the removed names.
C3_RescanIsDefinedMinusRemoved ==
  removedAfterScan =>
    LET again == scanFile(disk, sourceFileCache, file).usage IN
    /\ again # <<>>
    /\ namesInOrder(again[1].definedStyles) =
         without(namesInOrder(result[1].definedStyles), last.unusedNames)
    /\ elements(namesInOrder(again[1].definedStyles))
         \cap last.unusedNames = {}

\* a successful removal that took some declarations of the block and left
\* others
C3_Witness ==
  /\ removedAfterScan
  /\ \E name \in elements(namesInOrder(result[1].definedStyles)) :
        name \in last.unusedNames
  /\ \E name \in elements(namesInOrder(result[1].definedStyles)) :
        name \notin last.unusedNames

\* the characters of t at the indexes in keep, in the order of t
charsAt(t, keep) ==
  LET order == ascending(keep) IN [i \in 1..Len(order) |-> t[order[i]]]

\* the indexes of t outside the declarations of the names in unusedNames
outsideDeclarations(t, unusedNames) ==
  LET mods == modificationsOf(t, unusedNames) IN
  {k \in 1..Len(t) :
     \A i \in 1..Len(mods) : ~(mods[i].start < k /\ k <= mods[i].end)}

\* t without its commas and its whitespace
skeleton(t) == SelectSeq(t, LAMBDA c : c \notin Whitespace \cup {","})

\* C4: removeUnusedStyles deletes only the text of the requested
\* declarations and one separator comma per declaration: what stands
\* outside the requested declarations (the other declarations, the closing
\* brace of the block, the code after it) is in the written text unchanged,
\* and at most one comma per removed declaration is gone.  Whitespace next
\* to a removed comma is not counted.
C4_OnlyRequestedTextIsRemoved ==
  removedAfterScan =>
    LET old  == last.before[1]
        rest == charsAt(old, outsideDeclarations(old, last.unusedNames))
        gone == count(rest, ",", Len(rest))
                  - count(disk[file], ",", Len(disk[file]))
    IN  /\ skeleton(disk[file]) = skeleton(rest)
        /\ gone >= 0
        /\ gone <= Len(modificationsOf(old, last.unusedNames))

\* C5: removeUnusedStyles called with an empty target list leaves the
\* content of the file as it was.
C5_EmptyTargetListChangesNothing ==
  (lastWas("removeUnusedStyles") /\ last.unusedNames = {}) =>
    readFile(disk, file) = last.before

\* removeUnusedStyles was called with an empty list for a writable file
\* that declares styles
C5_Witness ==
  /\ lastWas("removeUnusedStyles")
  /\ last.unusedNames = {}
  /\ ~readOnly
  /\ last.before # <<>>
  /\ Len(styleProperties(last.before[1])) >= 1

\* the names the file declares when removeUnusedStyles starts
declaredBefore ==
  IF last.before = <<>> THEN {}
  ELSE elements(namesInOrder(styleProperties(last.before[1])))

\* C6: when a requested name that the scan had reported is no longer
\* declared in the file (a concurrent edit removed it), removeUnusedStyles
\* returns false and leaves the file as it was, also when other requested
\* names are still declared.
C6_MissingNameRefusesRemoval ==
  ( /\ lastWas("removeUnusedStyles")
    /\ last.before # <<>>
    /\ result # <<>>
    /\ \E name \in last.unusedNames :
          /\ name \in elements(namesInOrder(result[1].definedStyles))
          /\ name \notin declaredBefore )
  => /\ success = "false"
     /\ readFile(disk, file) = last.before

\* C7: when the write fails, or the file cannot be read when
\* removeUnusedStyles starts, removeUnusedStyles returns false (it does not
\* throw), the file keeps its content and the scan result computed before
\* is not altered.
C7_FailureReturnsFalseAndKeepsFile ==
  (lastWas("removeUnusedStyles") /\ (readOnly \/ last.before = <<>>)) =>
    /\ success = "false"
    /\ readFile(disk, file) = last.before
    /\ result = last.prevResult

\* removeUnusedStyles was called for a file that cannot be written, with a
\* name the file declares
C7_Witness ==
  /\ lastWas("removeUnusedStyles")
  /\ readOnly
  /\ last.unusedNames \cap declaredBefore # {}

\* C8: scanFile returns null only when the path matches an ignore pattern
\* or the file cannot be read; a readable file that is empty or holds no
\* StyleSheet.create call gets a result.
C8_NullOnlyWhenIgnoredOrUnreadable ==
  (lastWas("scanFile") /\ result = <<>>) =>
    shouldIgnore(file) \/ last.before = <<>>

\* C9: a scan of a file that was not modified since the scan before it
\* returns the definedStyles, usedStyles and unusedStyles of that scan, with
\* the parse cache (build "cached") and without it (build "index").
C9_RescanOfUnmodifiedFileIsIdentical ==
  (lastWas("scanFile") /\ last.prevClean) => result = last.prevResult

\* the second of two scans of an unmodified file that declares and uses
\* styles, in the build with the parse cache
C9_Witness ==
  /\ lastWas("scanFile")
  /\ last.prevClean
  /\ build = "cached"
  /\ file \in DOMAIN last.prevCache
  /\ result # <<>>
  /\ Len(result[1].definedStyles) >= 1
  /\ Len(result[1].usedStyles) >= 1

\* the tree the latest scan read
scannedTree ==
  IF build = "cached" THEN sourceFileCache[file] ELSE last.before[1]

\* the names accessed in t through the identifier receiver
accessedThrough(t, receiver) ==
  {accessedName(t, p) :
     p \in {q \in 1..Len(t) : /\ isPropertyAccess(t, q)
                              /\ receiverName(t, q) = receiver}}

\* C10: when a variable is declared with the identifier styles as its
\* whole initializer, every styles.name and every alias.name of the file is
\* in usedStyles, wherever the declaration of the alias stands.
C10_AliasIsTransparent ==
  (lastWas("scanFile") /\ result # <<>>) =>
    LET t == scannedTree IN
    \A p \in {q \in 1..Len(t) : isAliasDeclaration(t, q)} :
       accessedThrough(t, Words_styles) \cup accessedThrough(t, aliasName(t, p))
         \subseteq elements(result[1].usedStyles)

\* a scan of a file in which a style is accessed through an alias that is
\* declared after the access
C10_Witness ==
  /\ lastWas("scanFile")
  /\ result # <<>>
  /\ LET t == scannedTree IN
     \E p, q \in 1..Len(t) :
        /\ q < p
        /\ isAliasDeclaration(t, p)
        /\ isPropertyAccess(t, q)
        /\ receiverName(t, q) = aliasName(t, p)
        /\ accessedName(t, q) \in elements(result[1].usedStyles)

\* C11: after removeUnusedStyles has succeeded for a path the parse cache
\* holds no entry for the path, and the next scanFile of the path reports
\* the styles of the content that was written, not those of the tree of
\* the content before the rewrite.
C11_RewriteClearsCacheEntry ==
  (lastWas("removeUnusedStyles") /\ success = "true") =>
    /\ file \notin DOMAIN sourceFileCache
    /\ LET again == scanFile(disk, sourceFileCache, file).usage IN
       /\ again # <<>>
       /\ again[1].definedStyles = definedOf(disk[file])
       /\ again[1].usedStyles = usedOf(disk[file])

\* a successful rewrite in the build with the cache, the cache holding the
\* tree of the content before the rewrite when it started
C11_Witness ==
  /\ lastWas("removeUnusedStyles")
  /\ success = "true"
  /\ build = "cached"
  /\ file \in DOMAIN last.prevCache
  /\ definedOf(last.prevCache[file]) # definedOf(disk[file])


\* the answers that are yes or y, in any case
YesAnswers == {"y", "Y", "yes", "Yes", "YES", "yEs", "yeS", "YEs", "yES", "YeS"}

\* the files the delete prompt just answered was about
promptedFiles ==
  IF mode = "all" THEN {results[i].file : i \in 1..Len(results)}
  ELSE IF mode \in {"single", "oneByOne"} /\ idx \in 1..Len(files)
  THEN {files[idx]}
  ELSE {}

\* C12: a step of the program changes a file on disk only in interactive
\* mode, only when the latest answer to the delete prompt is yes or y (in
\* any case), and only a file that prompt was about; the direct scan and
\* any other answer leave every file as it was.
C12_WritesOnlyAfterYes ==
  [][disk' # disk =>
       /\ mode \in {"single", "all", "oneByOne"}
       /\ answer \in YesAnswers
       /\ \A f \in DOMAIN disk :
            disk'[f] # disk[f] => f \in promptedFiles]_vars

C12_Witness ==
  /\ answer = "YES"
  /\ success = "true"
  /\ mode = "oneByOne"
  /\ FileB \in attempted
  /\ FileA \notin attempted


\* a scan of filePath, as the disk is, reports a style that is declared
\* and not used
fileHasUnused(filePath) ==
  /\ ~shouldIgnore(filePath)
  /\ filePath \in DOMAIN disk
  /\ namesOf(definedOf(disk[filePath])) \ elements(usedOf(disk[filePath])) # {}

\* C13: when the direct scan of an existing file or folder has ended, its
\* exit code is 1 if some scanned file has a non-empty unusedStyles and 0
\* (no failure) if none has.
C13_ExitCodeOneIffUnused ==
  (mode = "direct" /\ pc = "exited" /\ files # <<>>) =>
    exitCode = (IF \E i \in 1..Len(files) : fileHasUnused(files[i])
                THEN 1 ELSE 0)

C13_Witness ==
  /\ mode = "direct"
  /\ pc = "exited"
  /\ exitCode = 1
  /\ Len(files) = 2
  /\ ~fileHasUnused(FileA)
  /\ fileHasUnused(FileB)

\* the direct scan of a folder whose files have no unused style ends
\* without a failure
C13_WitnessClean ==
  /\ mode = "direct"
  /\ pc = "exited"
  /\ exitCode = 0
  /\ Len(files) = 2
  /\ FileA \in DOMAIN disk


\* the files of the batch that were confirmed for a rewrite
toRewrite ==
  {results[i].file : i \in {j \in 1..Len(results) :
                               Len(results[j].unusedStyles) > 0}}

\* C14: when a batch (folder scan, scanAllFiles, scanFilesOneByOne) has
\* ended, every file of the batch was scanned, although one may be
\* unreadable; after a yes in scanAllFiles a rewrite was attempted for
\* every result with unused styles, although one may have failed; and
\* every file whose rewrite was attempted and could be written has no
\* unused style left.
C14_BatchGoesOn ==
  (mode \in {"direct", "all", "oneByOne"} /\ pc \in {"done", "exited"}) =>
    /\ scans = elements(files)
    /\ (mode = "all" /\ answer \in YesAnswers) => attempted = toRewrite
    /\ \A f \in attempted : writeOk(f) => ~fileHasUnused(f)

C14_Witness ==
  /\ mode = "all"
  /\ pc = "done"
  /\ readOnly
  /\ file = FileA
  /\ attempted = {FileA, FileB}
  /\ fileHasUnused(FileA)
  /\ ~fileHasUnused(FileB)

\* the batch of scanFilesOneByOne with A.tsx unreadable and the rewrite
\* of ui/B.tsx failing
C14_WitnessUnreadable ==
  /\ mode = "oneByOne"
  /\ pc = "done"
  /\ FileA \notin DOMAIN disk
  /\ scans = {FileA, FileB}
  /\ readOnly
  /\ file = FileB
  /\ attempted = {FileB}


\* the batch of scanAllFiles where A.tsx was rewritten before the rewrite
\* of ui/B.tsx failed
C14_WitnessEarlier ==
  /\ mode = "all"
  /\ pc = "done"
  /\ readOnly
  /\ file = FileB
  /\ attempted = {FileA, FileB}
  /\ ~fileHasUnused(FileA)
  /\ fileHasUnused(FileB)

\* the paths the default ignore patterns match
IgnoredPaths ==
  {"src/B.test.tsx", "src/node_modules", "src/node_modules/C.tsx"}

\* C18: no path that an ignore pattern matches is ever read, whether it
\* is the target of a scan or lies in the scanned folder; the file list
\* of a folder holds no ignored file and the listing enters no ignored
\* directory.
C18_IgnoredPathsAreNotRead ==
  /\ reads \cap IgnoredPaths = {}
  /\ scans \cap IgnoredPaths # {} => result = <<>>
  /\ Len(files) > 1 => elements(files) \cap IgnoredPaths = {}
  /\ getAllFiles("src").dirs \cap IgnoredPaths = {}

C18_Witness ==
  /\ mode = "direct"
  /\ pc = "exited"
  /\ files = <<"src/B.test.tsx">>
  /\ scans = {"src/B.test.tsx"}
  /\ result = <<>>
  /\ reads = {}


\* C15: a scan of a file whose parse raises a fault does not let the fault
\* through to the caller of scanFile: the call returns a result whose
\* definedStyles and usedStyles are empty.
C15_FaultIsContained ==
  (lastWas("scanFile") /\ last.before # <<>> /\ parseThrows(last.before[1])) =>
    /\ ~last.threw
    /\ result # <<>>
    /\ result[1].definedStyles = <<>>
    /\ result[1].usedStyles = <<>>

\* the same for the engine of src/src/index.ts alone
C15_FaultIsContainedByIndex == build = "index" => C15_FaultIsContained


\* no element occurs twice in seq
distinct(seq) == \A i, j \in 1..Len(seq) : seq[i] = seq[j] => i = j

\* C16: in every scan result no two entries of definedStyles have the
\* same name, and no two entries of unusedStyles have.
C16_NamesAreUnique ==
  result # <<>> =>
    /\ distinct(namesInOrder(result[1].definedStyles))
    /\ distinct(namesInOrder(result[1].unusedStyles))


\* the positions of the StyleSheet.create calls of t
createCalls(t) == {p \in 1..Len(t) : isCreateCall(t, p)}

\* the declarations of all blocks of t, as pairs of offset and name
declaredIn(t) ==
  UNION {{<<createProperties(t, p)[i].start, createProperties(t, p)[i].name>> :
            i \in 1..Len(createProperties(t, p))} : p \in createCalls(t)}

\* their names in the order of their offsets in t
namesByStart(t) ==
  LET starts == ascending({d[1] : d \in declaredIn(t)})
  IN  [i \in 1..Len(starts) |->
         (CHOOSE d \in declaredIn(t) : d[1] = starts[i])[2]]

\* C17: the definedStyles of a scan are the identifier-keyed properties of
\* every StyleSheet.create call of the file, in document order; after a
\* successful removeUnusedStyles that follows a scan, no block of the
\* written file declares a requested name.
C17_EveryBlockCounts ==
  /\ (lastWas("scanFile") /\ ~last.threw /\ result # <<>>) =>
       namesInOrder(result[1].definedStyles) = namesByStart(scannedTree)
  /\ removedAfterScan =>
       {d[2] : d \in declaredIn(disk[file])} \cap last.unusedNames = {}

\* a name declared in both of two blocks was removed from both
C17_Witness ==
  /\ removedAfterScan
  /\ Cardinality(createCalls(last.before[1])) = 2
  /\ Cardinality({d \in declaredIn(last.before[1]) : d[2] = declName(1)}) = 2
  /\ declName(1) \in last.unusedNames
  /\ Cardinality(createCalls(disk[file])) = 2

\* a scan of two blocks reports the declarations of both
C17_WitnessScan ==
  /\ lastWas("scanFile")
  /\ result # <<>>
  /\ Cardinality(createCalls(scannedTree)) = 2
  /\ Len(result[1].definedStyles) = 3


\* the text w occurs in t
contains(t, w) ==
  \E p \in 1..Len(t) :
    p + Len(w) - 1 <= Len(t) /\ SubSeq(t, p, p + Len(w) - 1) = w

\* className="name"
classNameOf(name) == <<"c","l","a","s","s","N","a","m","e","=","\"">> \o name \o <<"\"">>

\* C19: a style named by a className="styleName" attribute of the scanned
\* file is in the usedStyles of the scan.
C19_ClassNameIsAUse ==
  (lastWas("scanFile") /\ ~last.threw /\ result # <<>>) =>
    \A name \in DeclNames :
      contains(scannedTree, classNameOf(name)) =>
        name \in elements(result[1].usedStyles)


\* removeUnusedStyles located the declarations on the tree of the content
\* it read (in the cached build the tree may be one of an older content)
treeOfContent ==
  (build = "cached" /\ file \in DOMAIN last.prevCache)
    => last.prevCache[file] = last.before[1]

\* C20: of the members of a declaration block only the property
\* assignments with a plain identifier key are in definedStyles: a
\* string-literal key, a shorthand property, a spread, a computed key and
\* a method give no entry; and removeUnusedStyles leaves the text of these
\* members in the file, whatever names it is called with (the tree being
\* the tree of the content).
C20_OnlyIdentifierKeysDeclare ==
  /\ (lastWas("scanFile") /\ ~last.threw /\ result # <<>>) =>
       /\ scannedTree = MembersText => result[1].definedStyles = <<>>
       /\ scannedTree = MembersAndDeclarationText =>
            namesInOrder(result[1].definedStyles) = <<declName(1)>>
  /\ (lastWas("removeUnusedStyles") /\ last.before # <<>> /\ treeOfContent) =>
       /\ contains(last.before[1], NonDeclarations) =>
            contains(disk[file], NonDeclarations)
       /\ last.before[1] = MembersText =>
            success = "false" /\ disk[file] = MembersText

\* the names of the members that are no declarations were requested
\* together with a declared one, and only the declaration was removed
C20_Witness ==
  /\ lastWas("removeUnusedStyles")
  /\ success = "true"
  /\ last.before = <<MembersAndDeclarationText>>
  /\ last.unusedNames = {declName(1), declName(2)}
  /\ disk[file] = MembersText

\* a call that names only members that are no declarations
C20_WitnessRefused ==
  /\ lastWas("removeUnusedStyles")
  /\ last.before = <<MembersText>>
  /\ last.unusedNames = {declName(1), declName(2)}
  /\ ~readOnly


\* at position p of t stands receiver.name or receiver["name"], the
\* receiver being a whole identifier that is not itself the name of a
\* property access
accessAt(t, p, receiver, name) ==
  /\ \/ /\ wordAt(t, p, receiver \o <<".">> \o name)
        /\ ~IsIdentChar(charAt(t, p + Len(receiver) + 1 + Len(name)))
     \/ wordAt(t, p, receiver \o <<"[", "\"">> \o name \o <<"\"", "]">>)
  /\ ~IsIdentChar(charAt(t, p - 1))
  /\ charAt(t, p - 1) = "." => wordAt(t, p - 3, <<".", ".", ".">>)

\* C21: every name in the usedStyles of a scan is accessed in the scanned
\* text as styles.name, styles["name"] or through a recorded alias; the
\* accesses this.styles.a, props.styles.a, t.a (t no alias) and styles[b]
\* (index no string literal) record nothing.
C21_OnlyStylesOrAliasReceivers ==
  (lastWas("scanFile") /\ ~last.threw /\ result # <<>>) =>
    /\ \A name \in elements(result[1].usedStyles) :
         \E p \in 1..Len(scannedTree),
            receiver \in {Words_styles} \cup collectAliases(scannedTree) :
           accessAt(scannedTree, p, receiver, name)
    /\ scannedTree = ReceiversText =>
         /\ result[1].usedStyles = <<>>
         /\ namesInOrder(result[1].unusedStyles) = <<declName(1), declName(2)>>

C21_Witness ==
  /\ lastWas("scanFile")
  /\ result # <<>>
  /\ scannedTree = ReceiversText
  /\ Len(result[1].unusedStyles) = 2

\* C22: only a variable whose initializer is the identifier styles is an
\* alias: in a file with const s = styles; const t = s; a function
\* parameter u and a destructuring const {b} = styles, the accesses t.a and
\* u.a record nothing, and a and b stay in unusedStyles.
C22_OnlyDirectAliases ==
  (lastWas("scanFile") /\ ~last.threw /\ result # <<>>
     /\ scannedTree = AliasChainText) =>
    /\ result[1].usedStyles = <<>>
    /\ namesInOrder(result[1].unusedStyles) = <<declName(1), declName(2)>>

C22_Witness ==
  /\ lastWas("scanFile")
  /\ result # <<>>
  /\ scannedTree = AliasChainText
  /\ Len(result[1].unusedStyles) = 2


\* the text t without the characters at the positions in R
keep(t, R) ==
  LET left == ascending((1..Len(t)) \ R)
  IN  [i \in 1..Len(left) |-> t[left[i]]]

\* the position of the comma that follows the declaration ending at offset
\* e, only whitespace lying between, within the ten characters after it
followingComma(t, e) ==
  {k \in (e + 1)..MinOf({e + Window, Len(t)}) :
     /\ t[k] = ","
     /\ \A j \in (e + 1)..(k - 1) : t[j] \in Whitespace}

\* the positions of the commas within the ten characters before the
\* declaration starting at offset b
precedingCommas(t, b) ==
  {k \in MaxOf({1, b - Window + 1})..b : t[k] = ","}

\* the positions removed for the declaration at offsets [b, e): its own
\* characters, and up to the following comma, or else from the nearest
\* preceding comma on
removedFor(t, b, e) ==
  ((b + 1)..e)
    \cup (IF followingComma(t, e) # {}
          THEN (e + 1)..MinOf(followingComma(t, e))
          ELSE IF precedingCommas(t, b) # {}
          THEN MaxOf(precedingCommas(t, b))..b
          ELSE {})

\* the declarations of the requested names in the text the call read
requested == SelectSeq(styleProperties(last.before[1]),
                       LAMBDA prop : prop.name \in last.unusedNames)

C23_WitnessFollowing ==
  /\ removedAfterScan
  /\ Len(requested) = 1
  /\ followingComma(last.before[1], requested[1].end) # {}
  /\ precedingCommas(last.before[1], requested[1].start) # {}

\* a declaration was removed alone, no comma standing in either window
C23_WitnessNoComma ==
  /\ removedAfterScan
  /\ Len(requested) = 1
  /\ Len(styleProperties(last.before[1])) > 1
  /\ followingComma(last.before[1], requested[1].end) = {}
  /\ precedingCommas(last.before[1], requested[1].start) = {}


\* C24: the text a successful removeUnusedStyles writes is the text it
\* read without the intervals that the requested names have in a tree
\* parsed from that text, also when the file was edited after the scan.
C24_TargetsLocatedInCurrentContent ==
  (lastWas("removeUnusedStyles") /\ success = "true") =>
    disk[file] = rewritten(last.before[1], last.before[1], last.unusedNames)

\* the same for the engine of src/src/index.ts alone
C24_HoldsForIndex == build = "index" => C24_TargetsLocatedInCurrentContent


\* the path the program is about to scan or to rewrite
currentPath ==
  IF pc = "scan" /\ idx \in 1..Len(files) THEN files[idx]
  ELSE IF pc = "remove" /\ mode = "all" THEN results[idx].file
  ELSE IF pc = "remove" THEN result[1].file
  ELSE "none"

\* the cache holds the same for path f in both
sameEntry(before, after, f) ==
  /\ f \in DOMAIN before <=> f \in DOMAIN after
  /\ f \in DOMAIN before => before[f] = after[f]

\* C25: a step of the program that scans or rewrites a path changes no
\* other file, no other path's entry of the parse cache, and reads no
\* other file; and every result of a batch is what a scan of its file
\* alone, with an empty cache, returns.
C25_OtherPathsUntouched ==
  /\ [][\A f \in DOMAIN disk \cup DOMAIN sourceFileCache
               \cup DOMAIN sourceFileCache' \cup reads' :
          (\/ f \in DOMAIN disk /\ disk'[f] # disk[f]
           \/ ~sameEntry(sourceFileCache, sourceFileCache', f)
           \/ f \in reads' \ reads) => f = currentPath]_vars
  /\ [](\A i \in 1..Len(results) :
          attempted = {} =>
            <<results[i]>> = scanFile(disk, <<>>, results[i].file).usage)

\* in a batch both files were scanned and cached, and the rewrite of
\* A.tsx has left the cache entry of ui/B.tsx
C25_Witness ==
  /\ mode = "all"
  /\ build = "cached"
  /\ success = "true"
  /\ attempted = {FileA}
  /\ FileA \notin DOMAIN sourceFileCache
  /\ FileB \in DOMAIN sourceFileCache


\* the intervals removeUnusedStyles computes for the text t it read and the
\* requested names, comma included, in the order it applies them
cutsOf(t, unusedNames) ==
  LET mods == sortDescending(modificationsOf(t, unusedNames))
  IN  [i \in 1..Len(mods) |-> extendOverComma(t, mods[i])]

\* the positions of t that lie in one of the intervals
cutPositions(t, cuts) ==
  UNION {(cuts[i].start + 1)..cuts[i].end : i \in 1..Len(cuts)}

\* C26: the intervals removed by a call, comma included, are pairwise
\* disjoint and lie in descending order, and the text written is the text
\* read without exactly the characters of these intervals.
C26_CutsAreDisjoint ==
  removedAfterScan =>
    LET cuts == cutsOf(last.before[1], last.unusedNames) IN
    /\ \A i, j \in 1..Len(cuts) : i < j => cuts[j].end <= cuts[i].start
    /\ disk[file] = keep(last.before[1], cutPositions(last.before[1], cuts))

\* the same for the calls that remove one declaration
C26_HoldsForOneTarget ==
  (removedAfterScan /\ Len(requested) = 1) => C26_CutsAreDisjoint


\* C27: the result of a scanFile call describes the content that call
\* read: it is the result a scan of the same content with an empty parse
\* cache returns, also when the file was edited since an earlier scan.
C27_ScanDescribesContentRead ==
  (lastWas("scanFile") /\ ~last.threw) =>
    result = scanFile(disk, <<>>, file).usage

\* the same for the engine of src/src/index.ts alone, which has no cache
C27_HoldsForIndex == build = "index" => C27_ScanDescribesContentRead


C30_WitnessNoFiles ==
  /\ pc = "done"
  /\ mode = "interactive"
  /\ files = <<>>
  /\ ~rlOpen


\* invocation i is between its scanFile and the end of its write
betweenScanAndWrite(i) == invocations[i].at \in {"read", "write"}

\* invocation j scans or writes the file in this step
scansOrWrites(j) ==
  \/ invocations[j].at = "scan" /\ invocations'[j].at # "scan"
  \/ invocations[j].at = "write" /\ invocations'[j].at # "write"

\* C28: while an invocation of handleFileChange is between its scanFile and
\* the end of its write, no other invocation scans or writes the file: the
\* invocation has the thread all the time.
C28_ScanAndRewriteAreAtomic ==
  /\ [][\A i, j \in 1..Len(invocations) :
          (i # j /\ betweenScanAndWrite(i)) => ~scansOrWrites(j)]_vars
  /\ [](\A i \in 1..Len(invocations) :
          betweenScanAndWrite(i) => running = i)

\* two change events arrived within the settle delay: one invocation is
\* about to write while another one waits for its timer
C28_Witness ==
  /\ \E i, j \in 1..Len(invocations) :
       /\ invocations[i].at = "write"
       /\ invocations[j].at = "settle"
  /\ running # 0


\* no change event is pending and no invocation of handleFileChange
quiescent ==
  /\ events = 0
  /\ running = 0
  /\ \A i \in 1..Len(invocations) : invocations[i].at = "none"

\* C29: in watch mode, with no more than MaxEdits saves by other
\* processes, the scanner writes the file only finitely often: from some
\* point on no event is pending and no invocation is left.
C29_WatchBecomesQuiescent == <>[]quiescent

\* the file holds a "$"
dollarInFile == \E k \in 1..Len(disk[file]) : disk[file][k] = "$"

\* the same for the behaviours in which the file never holds a "$"
C29_QuiescentWithoutDollar == []~dollarInFile => <>[]quiescent

==========================================================================
